---- MODULE Spec2Model ----
(***************************************************************************)
(* MindBridge privacy engine: the zero-knowledge proof service             *)
(* (AdvancedZKProofService) and the privacy-preserving analytics engine    *)
(* (PrivacyPreservingAnalytics, LaplaceMechanism) of                       *)
(* MindBridge_Privacy_Blockchain_Architecture.md.                          *)
(*                                                                         *)
(* Asynchronous methods are split at their await points: one action per    *)
(* stretch of code that runs without suspension.  snarkjs (groth16), the   *)
(* artifact loaders, the ProofCache and Math.random are the environment;   *)
(* their outcomes are nondeterministic choices.                            *)
(***************************************************************************)
EXTENDS Integers, Sequences, FiniteSets, TLC

(***************************************************************************)
(* Bounds of the model                                                     *)
(***************************************************************************)
MaxDirect == 1      \* direct generate*Proof calls that may be open at once
MaxBatch == 2       \* longest batch handed to generateBatchProofs
MaxTicks == 2       \* clock advances
MaxReleaseCalls == 2    \* release calls that may be pending at once
MaxEpsilonTotal == 22   \* releases are issued while a consumer's total stays below
MaxUsers == 3       \* most records the store of encrypted metrics holds
MaxTokens == 1      \* most data NFTs minted
MaxTokenTicks == 2  \* advances of block.timestamp seen by the MIND token
MaxTokenTx == 3     \* most transactions the MIND token carries out

(***************************************************************************)
(* Program constants                                                       *)
(***************************************************************************)
CacheTTL == 3600    \* proofCache.set(cacheKey, zkProof, 3600)

WELLNESS == "wellness_milestone"
PEER == "peer_support"

\* circuitConfigs of initializeCircuits, in order
circuitConfigs == <<WELLNESS, PEER, "mood_privacy", "anonymous_achievement">>

\* request.type values a batch caller may send: the two the switch handles
\* and one that names no circuit
RequestTypes == {WELLNESS, PEER, "unknown_circuit"}

\* circuit names a verifyProof caller may send
VerifyNames == {WELLNESS, PEER, "unknown_circuit"}

PrivateInputs == {1}
PublicInputs == {1, 2}
PeerPublicInputs == {1}
BatchPublicInputs == {1}

DirectSlots == 1..MaxDirect
BatchSlots == (MaxDirect + 1)..(MaxDirect + MaxBatch)
Slots == DirectSlots \cup BatchSlots
BatchSlot(i) == MaxDirect + i

TickStep == CacheTTL \div 2

NoProof == [none |-> TRUE]
NoResult == [pending |-> TRUE]

VARIABLES
    circuits,          \* keys of this.circuits
    verificationKeys,  \* keys of this.verificationKeys
    initIdx,           \* next entry of circuitConfigs that initializeCircuits loads
    initState,         \* "loading" | "done" | "failed"
    proofCache,        \* this.proofCache: cache key -> [value, expiresAt]
    calls,             \* generate*Proof invocations, one per slot
    batchReqs,         \* proofRequests of the generateBatchProofs call
    batchState,        \* "none" | "running" | "returned"
    batchOut,          \* the array generateBatchProofs resolved with
    verifyOut,         \* outcome of the latest external verifyProof call
    now                \* wall clock, seconds

proofVars == <<circuits, verificationKeys, initIdx, initState, proofCache, calls,
               batchReqs, batchState, batchOut, verifyOut, now>>

VARIABLES
    releaseCalls,      \* generateDifferentialPrivateInsights invocations, one per slot
    epsilonUsed,       \* per consumer, sum of privacyBudgetUsed over the insights returned
    epsilonRequested,  \* per consumer, sum of the epsilons of the calls that were granted
    lastInsights       \* the DifferentialPrivateInsights returned most recently

analyticsVars == <<releaseCalls, epsilonUsed, epsilonRequested, lastInsights>>

VARIABLES
    zkVerifyOut        \* outcome of the latest ZKProofService.verifyProof call

legacyVars == <<zkVerifyOut>>

VARIABLES
    paillier,          \* this.paillier: Undefined until the key pair has been generated
    metricsStore,      \* the EncryptedUserMetrics records of the reporting period
    plainStore,        \* the metrics each record of metricsStore was made from
    encryptOut,        \* outcome of the latest encryptUserMetrics call
    aggregateOut       \* input and outcome of the latest aggregateEncryptedMetrics call

aggVars == <<paillier, metricsStore, plainStore, encryptOut, aggregateOut>>

VARIABLES
    wellnessRun,       \* inputs and run of the WellnessMilestoneProof circuit, with the
                       \* threshold raised last and the outcome of the run before
    peerRun            \* inputs and run of the PeerSupportVerification circuit

circuitVars == <<wellnessRun, peerRun>>

VARIABLES
    keyPrev,           \* the generateCacheKey call before the last one
    keyLast            \* the last generateCacheKey call: arguments and key

keyVars == <<keyPrev, keyLast>>

VARIABLES
    dataTokens,        \* MentalHealthDataNFT.dataTokens
    tokenOwner,        \* ERC721 owner of each token id, ZeroAddress when not minted
    userOwnedTokens,   \* MentalHealthDataNFT.userOwnedTokens
    dataHashToTokenId, \* MentalHealthDataNFT.dataHashToTokenId
    tokenIdCounter,    \* MentalHealthDataNFT._tokenIdCounter
    nftTx              \* the last transaction sent to the contract and its outcome

nftVars == <<dataTokens, tokenOwner, userOwnedTokens, dataHashToTokenId,
             tokenIdCounter, nftTx>>

VARIABLES
    balances,          \* ERC20 balances of the MIND token
    totalSupply,       \* ERC20 total supply
    stakingInfo,       \* MINDToken.stakingInfo
    totalStaked,       \* MINDToken.totalStaked
    userMilestones,    \* MINDToken.userMilestones
    blockTimestamp,    \* block.timestamp, in days
    tokenTx,           \* the last transaction sent to the token and its outcome
    tokenTxCount       \* transactions the token has carried out

tokenVars == <<balances, totalSupply, stakingInfo, totalStaked, userMilestones,
               blockTimestamp, tokenTx, tokenTxCount>>

vars == <<proofVars, analyticsVars, legacyVars, aggVars, circuitVars, keyVars, nftVars, tokenVars>>

(***************************************************************************)
(* groth16 (snarkjs)                                                       *)
(***************************************************************************)
\* publicSignals that fullProve derives from the circuit inputs
PublicSignalsOf(circuitName, priv, pub) == <<circuitName, priv, pub>>

\* { proof, publicSignals } of groth16.fullProve; sound tells whether the
\* proving key matched the circuit's verification key
FullProveResult(circuitName, priv, pub, sound) ==
    [proof |-> [circuit |-> circuitName, priv |-> priv, pub |-> pub,
                sound |-> sound, wellFormed |-> TRUE],
     publicSignals |-> PublicSignalsOf(circuitName, priv, pub)]

\* groth16.verify(vKey, publicSignals, proof) on a well-formed proof
Groth16Verify(vKey, publicSignals, proof) ==
    /\ proof.sound
    /\ proof.circuit = vKey
    /\ publicSignals = PublicSignalsOf(proof.circuit, proof.priv, proof.pub)

(***************************************************************************)
(* AdvancedZKProofService.verifyProof                                      *)
(***************************************************************************)
\* variant of verifyProof that lets a failed groth16 check escape as a rejection
verifyProofRejectsInvalid(vkeys, circuitName, proof, publicSignals) ==
    IF circuitName \notin vkeys
        THEN [threw |-> FALSE, value |-> FALSE]
    ELSE IF ~proof.wellFormed
        THEN [threw |-> FALSE, value |-> FALSE]
    ELSE IF ~Groth16Verify(circuitName, publicSignals, proof)
        THEN [threw |-> TRUE, value |-> FALSE]
    ELSE [threw |-> FALSE, value |-> TRUE]

\* [threw, value]: threw = the promise rejected, value = the boolean resolved
verifyProof(vkeys, circuitName, proof, publicSignals) ==
    IF circuitName \notin vkeys
        THEN [threw |-> FALSE, value |-> FALSE]     \* thrown, caught, false
    ELSE IF ~proof.wellFormed
        THEN [threw |-> FALSE, value |-> FALSE]     \* groth16.verify throws
    ELSE [threw |-> FALSE, value |-> Groth16Verify(circuitName, publicSignals, proof)]

(***************************************************************************)
(* ZKProofService.verifyProof: one verification key, read from             *)
(* ./circuits/verification_key.json at every call                          *)
(***************************************************************************)
\* what readFileSync and JSON.parse find: no usable file, or the circuit's key
KeyFiles == {"unreadable", WELLNESS}

ZKProofServiceVerifyProof(keyFile, proof, publicSignals) ==
    IF keyFile = "unreadable"
        THEN [threw |-> FALSE, value |-> FALSE]     \* readFileSync throws, caught
    ELSE IF ~proof.wellFormed
        THEN [threw |-> FALSE, value |-> FALSE]     \* groth16.verify throws, caught
    ELSE [threw |-> FALSE, value |-> Groth16Verify(keyFile, publicSignals, proof)]

(***************************************************************************)
(* generateCacheKey and ProofCache                                         *)
(***************************************************************************)
\* JavaScript numbers handed in as inputs: finite numbers and the two
\* non-finite numbers a computed score can be
Number(n) == [t |-> "number", v |-> n]
NaN == [t |-> "NaN", v |-> 0]
Infinity == [t |-> "Infinity", v |-> 0]

\* a property of an object; an object is the sequence of its properties in
\* insertion order
Property(key, value) == [key |-> key, value |-> value]

\* text of a string literal
Quoted(text) == <<"\"", text, "\"">>

\* JSON.stringify of a number: non-finite numbers are written as null
StringifyValue(value) ==
    IF value.t = "number" THEN <<ToString(value.v)>> ELSE <<"null">>

\* JSON.stringify of an object of numbers: its own properties in insertion
\* order
RECURSIVE StringifyProperties(_, _)
StringifyProperties(object, n) ==
    IF n = 0 THEN <<>>
    ELSE StringifyProperties(object, n - 1)
            \o (IF n = 1 THEN <<>> ELSE <<",">>)
            \o Quoted(object[n].key) \o <<":">> \o StringifyValue(object[n].value)

StringifyObject(object) == <<"{">> \o StringifyProperties(object, Len(object)) \o <<"}">>

\* JSON.stringify({ circuitName, privateInputs, publicInputs })
JSONStringify(circuitName, privateInputs, publicInputs) ==
    <<"{">> \o Quoted("circuitName") \o <<":">> \o Quoted(circuitName)
        \o <<",">> \o Quoted("privateInputs") \o <<":">> \o StringifyObject(privateInputs)
        \o <<",">> \o Quoted("publicInputs") \o <<":">> \o StringifyObject(publicInputs)
        \o <<"}">>

\* crypto.createHash('sha256').update(data).digest('hex'): taken to be free of
\* collisions, the digest stands for the text it was computed from
sha256(data) == [digest |-> data]

generateCacheKey(circuitName, privateInputs, publicInputs) ==
    sha256(JSONStringify(circuitName, privateInputs, publicInputs))

\* the input objects the service's callers hand in, by the number that
\* identifies them in a call record
PrivateInputsObject(priv) == <<Property("mentalHealthScore", Number(84 + priv))>>
PublicInputsObject(pub) == <<Property("minWellnessThreshold", Number(70 + 10 * pub))>>

\* const cacheKey = this.generateCacheKey(circuitName, privateInputs, publicInputs)
cacheKey(circuitName, priv, pub) ==
    generateCacheKey(circuitName, PrivateInputsObject(priv), PublicInputsObject(pub))

NoEntry == [absent |-> TRUE]

\* ProofCache.get: the stored value while its TTL has not elapsed
CacheGet(cache, key, t) ==
    IF key \in DOMAIN cache /\ t < cache[key].expiresAt
        THEN cache[key].value
        ELSE NoEntry

\* ProofCache.set(key, value, ttl) called at time t: the TTL runs from the call
CacheSet(cache, key, value, ttl, t) ==
    [k \in DOMAIN cache \cup {key} |->
        IF k = key THEN [value |-> value, expiresAt |-> t + ttl] ELSE cache[k]]

(***************************************************************************)
(* Call records                                                            *)
(***************************************************************************)
IdleCall == [pc |-> "idle", type |-> "none", priv |-> 0, pub |-> 0,
             proved |-> NoProof, verdict |-> NoResult, zk |-> NoProof, setAt |-> 0,
             result |-> NoResult, fromCache |-> FALSE,
             proveCount |-> 0, verifyCount |-> 0]

NewCall(type, priv, pub, pc) ==
    [IdleCall EXCEPT !.pc = pc, !.type = type, !.priv = priv, !.pub = pub]

Returned(proof) == [success |-> TRUE, proof |-> proof, error |-> <<>>]
Thrown(error) == [success |-> FALSE, proof |-> NoProof, error |-> error]

WellnessError(message) == <<"Failed to generate wellness milestone proof", message>>
PeerError(message) == <<"Failed to generate peer support proof", message>>
ErrorOf(type, message) ==
    IF type = WELLNESS THEN WellnessError(message) ELSE PeerError(message)

Finish(call, result) == [call EXCEPT !.pc = "done", !.result = result]

(***************************************************************************)
(* Proof objects handed to callers                                         *)
(***************************************************************************)
\* Date.now(): milliseconds
DateNow(t) == t * 1000

\* WellnessZKProof literal of generateWellnessMilestoneProof; selfVerified
\* records the value of the local isValid the object was built under
WellnessZKProof(proved, isValid, t) ==
    [proof |-> proved.proof, publicSignals |-> proved.publicSignals,
     isValid |-> TRUE, timestamp |-> DateNow(t), selfVerified |-> isValid]

\* PeerSupportZKProof literal of generatePeerSupportProof
PeerSupportZKProof(proved, isValid, t) ==
    [proof |-> proved.proof, publicSignals |-> proved.publicSignals,
     isValid |-> isValid, timestamp |-> DateNow(t), selfVerified |-> isValid]

(***************************************************************************)
(* generateWellnessMilestoneProof, by await point                          *)
(***************************************************************************)
\* entry: cache key computed, proofCache.get issued
StartWellness(priv, pub) == NewCall(WELLNESS, priv, pub, "get")

\* variant of WellnessAfterCacheGet that returns an entry whatever its age
WellnessAfterCacheGetStale(call, cache, circs, t) ==
    LET key == cacheKey(WELLNESS, call.priv, call.pub) IN
    IF key \in DOMAIN cache
        THEN Finish([call EXCEPT !.fromCache = TRUE], Returned(cache[key].value))
    ELSE IF WELLNESS \notin circs
        THEN Finish(call, Thrown(WellnessError("TypeError: circuit is undefined")))
    ELSE [call EXCEPT !.pc = "prove", !.proveCount = @ + 1]

\* variant of WellnessAfterCacheGet that never takes the early return
WellnessAfterCacheGetNoHit(call, cache, circs, t) ==
    IF WELLNESS \notin circs
        THEN Finish(call, Thrown(WellnessError("TypeError: circuit is undefined")))
        ELSE [call EXCEPT !.pc = "prove", !.proveCount = @ + 1]

\* proofCache.get resolved: hit returns the cached proof; miss looks up the
\* circuit and calls groth16.fullProve
WellnessAfterCacheGet(call, cache, circs, t) ==
    LET hit == CacheGet(cache, cacheKey(WELLNESS, call.priv, call.pub), t) IN
    IF hit # NoEntry
        THEN Finish([call EXCEPT !.fromCache = TRUE], Returned(hit))
    ELSE IF WELLNESS \notin circs
        THEN Finish(call, Thrown(WellnessError("TypeError: circuit is undefined")))
    ELSE [call EXCEPT !.pc = "prove", !.proveCount = @ + 1]

\* variant of AfterFullProve that calls the prover a second time after a rejection
AfterFullProveRetrying(call, outcome, vkeys) ==
    IF outcome = "throws" /\ call.proveCount < 2
        THEN [call EXCEPT !.proveCount = @ + 1]
    ELSE IF outcome = "throws"
        THEN Finish(call, Thrown(ErrorOf(call.type, "prover error")))
    ELSE LET proved == FullProveResult(call.type, call.priv, call.pub, outcome = "sound") IN
         [call EXCEPT !.pc = "verify", !.proved = proved,
                      !.verdict = verifyProof(vkeys, call.type, proved.proof,
                                              proved.publicSignals),
                      !.verifyCount = @ + 1]

\* groth16.fullProve settled: a rejection is rethrown wrapped; a result is
\* handed to verifyProof
AfterFullProve(call, outcome, vkeys) ==
    IF outcome = "throws"
        THEN Finish(call, Thrown(ErrorOf(call.type, "prover error")))
    ELSE LET proved == FullProveResult(call.type, call.priv, call.pub, outcome = "sound") IN
         [call EXCEPT !.pc = "verify", !.proved = proved,
                      !.verdict = verifyProof(vkeys, call.type, proved.proof,
                                              proved.publicSignals),
                      !.verifyCount = @ + 1]

\* variant of WellnessAfterVerify that keeps a proof verifyProof turned down
WellnessAfterVerifyKeepsInvalid(call, t) ==
    IF call.verdict.threw
        THEN Finish(call, Thrown(WellnessError("Verification key not found")))
        ELSE [call EXCEPT !.pc = "set", !.setAt = t,
                          !.zk = WellnessZKProof(call.proved, call.verdict.value, t)]

\* verifyProof resolved inside generateWellnessMilestoneProof
WellnessAfterVerify(call, t) ==
    IF call.verdict.threw
        THEN Finish(call, Thrown(WellnessError("Verification key not found")))
    ELSE IF ~call.verdict.value
        THEN Finish(call, Thrown(WellnessError("Generated proof is invalid")))
    ELSE [call EXCEPT !.pc = "set", !.setAt = t,
                      !.zk = WellnessZKProof(call.proved, call.verdict.value, t)]

(***************************************************************************)
(* generatePeerSupportProof, by await point                                *)
(***************************************************************************)
\* entry: no cache lookup; looks up the circuit and calls groth16.fullProve
StartPeer(priv, pub, circs) ==
    IF PEER \notin circs
        THEN Finish(NewCall(PEER, priv, pub, "idle"),
                    Thrown(PeerError("TypeError: circuit is undefined")))
        ELSE [NewCall(PEER, priv, pub, "prove") EXCEPT !.proveCount = 1]

\* verifyProof resolved inside generatePeerSupportProof
PeerAfterVerify(call, t) ==
    IF call.verdict.threw
        THEN Finish(call, Thrown(PeerError("Verification key not found")))
        ELSE Finish(call, Returned(PeerSupportZKProof(call.proved, call.verdict.value, t)))

(***************************************************************************)
(* generateBatchProofs                                                     *)
(***************************************************************************)
\* caller-supplied correlation ids of a batch of n requests: distinct ids in
\* ascending or descending order, or one id used for every request
RequestIdSeqs(n) ==
    {[i \in 1..n |-> i], [i \in 1..n |-> n + 1 - i], [i \in 1..n |-> 1]}

Requests(ids) == [requestId : ids, type : RequestTypes,
                  privateInputs : PrivateInputs, publicInputs : BatchPublicInputs]

\* variant of StartItem whose switch falls back to the wellness generator
StartItemDuckTyped(request, circs) ==
    IF request.type = PEER
        THEN StartPeer(request.privateInputs, request.publicInputs, circs)
        ELSE StartWellness(request.privateInputs, request.publicInputs)

\* the synchronous part of the map callback for one request
StartItem(request, circs) ==
    IF request.type = WELLNESS
        THEN StartWellness(request.privateInputs, request.publicInputs)
    ELSE IF request.type = PEER
        THEN StartPeer(request.privateInputs, request.publicInputs, circs)
    ELSE Finish(NewCall(request.type, request.privateInputs, request.publicInputs, "idle"),
                Thrown(<<"Unknown proof type", request.type>>))

\* the BatchProofResult the map callback resolves with
ItemResult(request, result) ==
    IF result.success
        THEN [requestId |-> request.requestId, success |-> TRUE,
              proof |-> result.proof, error |-> <<>>]
        ELSE [requestId |-> request.requestId, success |-> FALSE,
              proof |-> NoProof, error |-> result.error]

\* variant of PromiseAll that collects the results last request first
PromiseAllLastFirst(itemResults) ==
    [i \in 1..Len(itemResults) |-> itemResults[Len(itemResults) + 1 - i]]

\* Promise.all(proofPromises): results by position, whatever the settle order
PromiseAll(itemResults) == itemResults

(***************************************************************************)
(* State after construction: the constructor has created empty maps and    *)
(* started initializeCircuits without awaiting it                          *)
(***************************************************************************)
ProofInit ==
    /\ circuits = {}
    /\ verificationKeys = {}
    /\ initIdx = 1
    /\ initState = "loading"
    /\ proofCache = <<>>
    /\ calls = [s \in Slots |-> IdleCall]
    /\ batchReqs = <<>>
    /\ batchState = "none"
    /\ batchOut = <<>>
    /\ verifyOut = NoResult
    /\ now = 0

(***************************************************************************)
(* initializeCircuits / loadCircuit                                        *)
(***************************************************************************)
\* loadCircuit(config) succeeds: both maps get the entry
LoadCircuit ==
    /\ initState = "loading"
    /\ circuits' = circuits \cup {circuitConfigs[initIdx]}
    /\ verificationKeys' = verificationKeys \cup {circuitConfigs[initIdx]}
    /\ initIdx' = initIdx + 1
    /\ initState' = IF initIdx = Len(circuitConfigs) THEN "done" ELSE "loading"
    /\ UNCHANGED <<proofCache, calls, batchReqs, batchState, batchOut, verifyOut, now>>

\* a loader throws: loadCircuit rethrows and the for loop is abandoned
LoadCircuitFails ==
    /\ initState = "loading"
    /\ initState' = "failed"
    /\ UNCHANGED <<circuits, verificationKeys, initIdx, proofCache, calls, batchReqs,
                   batchState, batchOut, verifyOut, now>>

(***************************************************************************)
(* Direct calls                                                            *)
(***************************************************************************)
Free(s) == calls[s].pc \in {"idle", "done"}

GenerateWellnessMilestoneProof(s, priv, pub) ==
    /\ Free(s)
    /\ calls' = [calls EXCEPT ![s] = StartWellness(priv, pub)]
    /\ UNCHANGED <<circuits, verificationKeys, initIdx, initState, proofCache, batchReqs,
                   batchState, batchOut, verifyOut, now>>

GeneratePeerSupportProof(s, priv, pub) ==
    /\ Free(s)
    /\ calls' = [calls EXCEPT ![s] = StartPeer(priv, pub, circuits)]
    /\ UNCHANGED <<circuits, verificationKeys, initIdx, initState, proofCache, batchReqs,
                   batchState, batchOut, verifyOut, now>>

(***************************************************************************)
(* Continuations, shared by direct calls and batch items                   *)
(***************************************************************************)
StepTo(s, call) == calls' = [calls EXCEPT ![s] = call]

WellnessCacheGet(s) ==
    /\ calls[s].pc = "get"
    /\ StepTo(s, WellnessAfterCacheGet(calls[s], proofCache, circuits, now))
    /\ UNCHANGED <<circuits, verificationKeys, initIdx, initState, proofCache, batchReqs,
                   batchState, batchOut, verifyOut, now>>

FullProveSettles(s) ==
    /\ calls[s].pc = "prove"
    /\ \E outcome \in {"throws", "sound", "unsound"} :
          StepTo(s, AfterFullProve(calls[s], outcome, verificationKeys))
    /\ UNCHANGED <<circuits, verificationKeys, initIdx, initState, proofCache, batchReqs,
                   batchState, batchOut, verifyOut, now>>

WellnessVerifySettles(s) ==
    /\ calls[s].pc = "verify"
    /\ calls[s].type = WELLNESS
    /\ StepTo(s, WellnessAfterVerify(calls[s], now))
    /\ UNCHANGED <<circuits, verificationKeys, initIdx, initState, proofCache, batchReqs,
                   batchState, batchOut, verifyOut, now>>

PeerVerifySettles(s) ==
    /\ calls[s].pc = "verify"
    /\ calls[s].type = PEER
    /\ StepTo(s, PeerAfterVerify(calls[s], now))
    /\ UNCHANGED <<circuits, verificationKeys, initIdx, initState, proofCache, batchReqs,
                   batchState, batchOut, verifyOut, now>>

\* variant of WellnessCacheSet whose key leaves the public inputs out
WellnessCacheSetPrivateKeyOnly(s) ==
    /\ calls[s].pc = "set"
    /\ proofCache' = CacheSet(proofCache, cacheKey(WELLNESS, calls[s].priv, 1),
                              calls[s].zk, CacheTTL, calls[s].setAt)
    /\ StepTo(s, Finish(calls[s], Returned(calls[s].zk)))
    /\ UNCHANGED <<circuits, verificationKeys, initIdx, initState, batchReqs,
                   batchState, batchOut, verifyOut, now>>

\* proofCache.set resolved: the entry is in the cache, the proof is returned
WellnessCacheSet(s) ==
    /\ calls[s].pc = "set"
    /\ proofCache' = CacheSet(proofCache,
                              cacheKey(WELLNESS, calls[s].priv, calls[s].pub),
                              calls[s].zk, CacheTTL, calls[s].setAt)
    /\ StepTo(s, Finish(calls[s], Returned(calls[s].zk)))
    /\ UNCHANGED <<circuits, verificationKeys, initIdx, initState, batchReqs,
                   batchState, batchOut, verifyOut, now>>

(***************************************************************************)
(* generateBatchProofs                                                     *)
(***************************************************************************)
BatchInputs ==
    UNION {{reqs \in [1..n -> Requests(1..n)] :
               [i \in 1..n |-> reqs[i].requestId] \in RequestIdSeqs(n)} : n \in 0..MaxBatch}

\* variant of GenerateBatchProofs that registers the circuit of every request
GenerateBatchProofsRegistering(reqs) ==
    /\ batchState \in {"none", "returned"}
    /\ batchReqs' = reqs
    /\ batchState' = "running"
    /\ batchOut' = <<>>
    /\ circuits' = circuits \cup {reqs[i].type : i \in 1..Len(reqs)}
    /\ calls' = [s \in Slots |->
                    IF s \in DirectSlots THEN calls[s]
                    ELSE IF s - MaxDirect <= Len(reqs)
                        THEN StartItem(reqs[s - MaxDirect], circuits)
                    ELSE IdleCall]
    /\ UNCHANGED <<verificationKeys, initIdx, initState, proofCache, verifyOut, now>>

GenerateBatchProofs(reqs) ==
    /\ batchState \in {"none", "returned"}
    /\ batchReqs' = reqs
    /\ batchState' = "running"
    /\ batchOut' = <<>>
    /\ calls' = [s \in Slots |->
                    IF s \in DirectSlots THEN calls[s]
                    ELSE IF s - MaxDirect <= Len(reqs)
                        THEN StartItem(reqs[s - MaxDirect], circuits)
                    ELSE IdleCall]
    /\ UNCHANGED <<circuits, verificationKeys, initIdx, initState, proofCache,
                   verifyOut, now>>

\* every item promise has settled: Promise.all resolves
BatchReturns ==
    /\ batchState = "running"
    /\ \A i \in 1..Len(batchReqs) : calls[BatchSlot(i)].pc = "done"
    /\ batchOut' = PromiseAll([i \in 1..Len(batchReqs) |->
                                  ItemResult(batchReqs[i], calls[BatchSlot(i)].result)])
    /\ batchState' = "returned"
    /\ UNCHANGED <<circuits, verificationKeys, initIdx, initState, proofCache, calls,
                   batchReqs, verifyOut, now>>

(***************************************************************************)
(* External verifyProof calls                                              *)
(***************************************************************************)
MalformedProof == [circuit |-> "none", priv |-> 0, pub |-> 0,
                   sound |-> FALSE, wellFormed |-> FALSE]

PresentedProofs ==
    {FullProveResult(c, p, q, snd).proof :
        c \in {WELLNESS, PEER}, p \in PrivateInputs, q \in PublicInputs, snd \in BOOLEAN}
    \cup {MalformedProof}

PresentedSignals ==
    {PublicSignalsOf(c, p, q) : c \in {WELLNESS, PEER}, p \in PrivateInputs,
                                q \in PublicInputs}

VerifyProofCall(circuitName, proof, publicSignals) ==
    /\ verifyOut' = [circuitName |-> circuitName, proof |-> proof,
                     publicSignals |-> publicSignals,
                     keyLoaded |-> circuitName \in verificationKeys,
                     outcome |-> verifyProof(verificationKeys, circuitName, proof,
                                             publicSignals)]
    /\ UNCHANGED <<circuits, verificationKeys, initIdx, initState, proofCache, calls,
                   batchReqs, batchState, batchOut, now>>

\* proofs and signals presented to ZKProofService, all of its one circuit
ZKPresentedProofs ==
    {FullProveResult(WELLNESS, p, 1, snd).proof : p \in PrivateInputs, snd \in BOOLEAN}
    \cup {MalformedProof}

ZKPresentedSignals ==
    {PublicSignalsOf(WELLNESS, p, q) : p \in PrivateInputs, q \in PublicInputs}

ZKProofServiceVerifyProofCall(keyFile, proof, publicSignals) ==
    /\ zkVerifyOut' = [keyFile |-> keyFile, proof |-> proof,
                       publicSignals |-> publicSignals,
                       outcome |-> ZKProofServiceVerifyProof(keyFile, proof, publicSignals)]
    /\ UNCHANGED proofVars

Tick ==
    /\ now < MaxTicks * TickStep
    /\ now' = now + TickStep
    /\ UNCHANGED <<circuits, verificationKeys, initIdx, initState, proofCache, calls,
                   batchReqs, batchState, batchOut, verifyOut>>

(***************************************************************************)
(* PrivacyPreservingAnalytics.generateDifferentialPrivateInsights and      *)
(* LaplaceMechanism.  Epsilon is counted in tenths (EpsUnit = 1.0); noisy  *)
(* values are exact fractions [num, den].                                  *)
(***************************************************************************)
EpsUnit == 10

\* epsilon: number = 1.0
DefaultEpsilon == EpsUnit

\* cap of a consumer's PrivacyBudget (1.0)
BudgetCap == EpsUnit

Consumers == {"c1"}
ReleaseSlots == 1..MaxReleaseCalls

\* the epsilon argument: <<>> when the caller omits it
EpsilonArgs == {<<>>, <<6>>}

EffectiveEpsilon(arg) == IF arg = <<>> THEN DefaultEpsilon ELSE arg[1]

AggregateInputs ==
    {[userCount |-> 3, averageMoodScore |-> 80, totalSessions |-> 12,
      averageWellnessScore |-> 70, totalCrisisEvents |-> 3]}

\* unit-scale values of -sign(u) * ln(1 - 2|u|) for the uniform draw u
LaplaceDraws == {-1, 1}

\* LaplaceMechanism.addNoise on the fraction vnum/vden: value + draw * (1 / epsilon)
addNoise(vnum, vden, eps, draw) ==
    [num |-> vnum * eps + draw * EpsUnit * vden, den |-> vden * eps]

\* Math.round of a fraction with a positive denominator
MathRound(q) == (2 * q.num + q.den) \div (2 * q.den)

\* calculateConfidenceInterval: variance 2 / epsilon^2, bounds -/+ 1.96 standard errors
calculateConfidenceInterval(eps) ==
    [variance |-> [num |-> 2 * EpsUnit * EpsUnit, den |-> eps * eps],
     zHundredths |-> 196, confidencePercent |-> 95]

\* variant of generateDifferentialPrivateInsights that reports the default epsilon
generateInsightsDefaultBudget(agg, eps, draws, t) ==
    [noisyAverageMood |-> addNoise(agg.averageMoodScore, 1, eps, draws[1]),
     noisyAverageWellness |-> addNoise(agg.averageWellnessScore, 1, eps, draws[2]),
     noisyTotalSessions |-> MathRound(addNoise(agg.totalSessions, 1, eps, draws[3])),
     noisyCrisisRate |-> addNoise(agg.totalCrisisEvents, agg.userCount, eps, draws[4]),
     privacyBudgetUsed |-> DefaultEpsilon,
     confidenceInterval |-> calculateConfidenceInterval(eps),
     timestamp |-> DateNow(t)]

generateDifferentialPrivateInsights(agg, eps, draws, t) ==
    [noisyAverageMood |-> addNoise(agg.averageMoodScore, 1, eps, draws[1]),
     noisyAverageWellness |-> addNoise(agg.averageWellnessScore, 1, eps, draws[2]),
     noisyTotalSessions |-> MathRound(addNoise(agg.totalSessions, 1, eps, draws[3])),
     noisyCrisisRate |-> addNoise(agg.totalCrisisEvents, agg.userCount, eps, draws[4]),
     privacyBudgetUsed |-> eps,
     confidenceInterval |-> calculateConfidenceInterval(eps),
     timestamp |-> DateNow(t)]

IdleRelease == [pc |-> "idle", consumer |-> "none", agg |-> <<>>, epsilonArg |-> <<>>,
                seenSpent |-> 0, outcome |-> "none"]

AnalyticsInit ==
    /\ releaseCalls = [s \in ReleaseSlots |-> IdleRelease]
    /\ epsilonUsed = [c \in Consumers |-> 0]
    /\ epsilonRequested = [c \in Consumers |-> 0]
    /\ lastInsights = NoResult

\* a consumer issues a release; seenSpent is the consumer's total at that moment
ReleaseCall(s, consumer, agg, arg) ==
    /\ releaseCalls[s].pc \in {"idle", "returned"}
    /\ epsilonRequested[consumer] + EffectiveEpsilon(arg) <= MaxEpsilonTotal
    /\ releaseCalls' = [releaseCalls EXCEPT ![s] =
            [pc |-> "called", consumer |-> consumer, agg |-> agg, epsilonArg |-> arg,
             seenSpent |-> epsilonUsed[consumer], outcome |-> "none"]]
    /\ UNCHANGED <<epsilonUsed, epsilonRequested, lastInsights>>

\* the body runs to completion and hands the insights back
ReleaseRuns(s) ==
    /\ releaseCalls[s].pc = "called"
    /\ \E draws \in [1..4 -> LaplaceDraws] :
        LET call == releaseCalls[s]
            eps == EffectiveEpsilon(call.epsilonArg)
            insights == generateDifferentialPrivateInsights(call.agg, eps, draws, now)
        IN /\ lastInsights' = insights
           /\ epsilonUsed' = [epsilonUsed EXCEPT
                                 ![call.consumer] = @ + insights.privacyBudgetUsed]
           /\ epsilonRequested' = [epsilonRequested EXCEPT ![call.consumer] = @ + eps]
           /\ releaseCalls' = [releaseCalls EXCEPT ![s].pc = "returned",
                                  ![s].outcome = "granted"]

(***************************************************************************)
(* PrivacyPreservingAnalytics: the Paillier key pair, encryptUserMetrics   *)
(* and aggregateEncryptedMetrics.  A ciphertext is its key, the plaintext  *)
(* it carries and the encryptions that were multiplied into it; BigInt()   *)
(* and Number() are exact on the integers of the metric domain.            *)
(***************************************************************************)
OwnKey == "k1"          \* the pair Paillier.generateRandomKeys gave this engine
ForeignKey == "k2"      \* the pair of another engine instance
Undefined == [undefined |-> TRUE]

\* what privateKey.decrypt yields on a ciphertext that is not of its key
Residues == {0, 7}

PlainFields == <<"moodScore", "sessionCount", "engagementTime", "wellnessScore",
                 "crisisEvents">>
EncryptedFields == <<"encryptedMoodScore", "encryptedSessionCount",
                     "encryptedEngagementTime", "encryptedWellnessScore",
                     "encryptedCrisisEvents">>
FieldIdx == 1..Len(EncryptedFields)

\* the metrics users report: [moodScore, sessionCount, engagementTime,
\* wellnessScore, crisisEvents]
MetricValues == {<<60, 4, 30, 70, 0>>, <<80, 5, 45, 75, 1>>, <<100, 3, 20, 65, 2>>}

UserMentalHealthMetrics(userId, values, t) ==
    [userId |-> userId, moodScore |-> values[1], sessionCount |-> values[2],
     engagementTime |-> values[3], wellnessScore |-> values[4],
     crisisEvents |-> values[5], timestamp |-> t]

\* publicKey.encrypt(m): a fresh ciphertext, told apart by its nonce
Encrypt(pub, m, nonce) == [key |-> pub, plain |-> m, nonces |-> <<nonce>>]

\* variant of Addition that returns its left operand
AdditionKeepsLeft(pub, a, b) == a

\* publicKey.addition(a, b): the product of the two ciphertexts under pub
Addition(pub, a, b) ==
    [key |-> IF a.key = pub /\ b.key = pub THEN pub ELSE "mixed",
     plain |-> a.plain + b.plain,
     nonces |-> a.nonces \o b.nonces]

\* privateKey.decrypt(c)
Decrypt(priv, c, residue) == IF c.key = priv THEN c.plain ELSE residue

\* the record encryptUserMetrics builds with the public key pub
encryptUserMetrics(pub, metrics) ==
    [userId |-> metrics.userId,
     encryptedMoodScore |-> Encrypt(pub, metrics.moodScore, <<metrics.userId, 1>>),
     encryptedSessionCount |-> Encrypt(pub, metrics.sessionCount, <<metrics.userId, 2>>),
     encryptedEngagementTime |-> Encrypt(pub, metrics.engagementTime, <<metrics.userId, 3>>),
     encryptedWellnessScore |-> Encrypt(pub, metrics.wellnessScore, <<metrics.userId, 4>>),
     encryptedCrisisEvents |-> Encrypt(pub, metrics.crisisEvents, <<metrics.userId, 5>>),
     timestamp |-> metrics.timestamp]

\* a / b of two numbers, kept as the exact fraction
Divide(a, b) == [num |-> a, den |-> b]

RECURSIVE TotalEncrypted(_, _, _, _)
\* a running total after the loop has passed element n (counted from 1): it
\* starts as element 1 and takes one addition per later element
TotalEncrypted(pub, encryptedMetrics, field, n) ==
    IF n = 1
        THEN encryptedMetrics[1][field]
        ELSE Addition(pub, TotalEncrypted(pub, encryptedMetrics, field, n - 1),
                      encryptedMetrics[n][field])

\* the library calls of one aggregation in program order: five additions per
\* loop iteration, then the five decryptions
AdditionCalls(n) ==
    [k \in 1..(Len(EncryptedFields) * (n - 1)) |->
        [op |-> "addition",
         field |-> EncryptedFields[((k - 1) % Len(EncryptedFields)) + 1],
         index |-> ((k - 1) \div Len(EncryptedFields)) + 2]]

DecryptCalls(totals) ==
    [k \in FieldIdx |->
        [op |-> "decrypt", field |-> EncryptedFields[k], ciphertext |-> totals[k]]]

AggregateThrown(error) ==
    [threw |-> TRUE, error |-> error, calls |-> <<>>, value |-> NoResult]

\* variant of aggregateEncryptedMetrics that answers an empty list with zeros
aggregateEmptyAsZero(keys, encryptedMetrics, residue, t) ==
    IF Len(encryptedMetrics) = 0
        THEN [threw |-> FALSE, error |-> <<>>, calls |-> <<>>,
              value |-> [userCount |-> 0, averageMoodScore |-> Divide(0, 1),
                         totalSessions |-> 0, averageEngagementTime |-> Divide(0, 1),
                         averageWellnessScore |-> Divide(0, 1), totalCrisisEvents |-> 0,
                         aggregationTimestamp |-> DateNow(t)]]
    ELSE IF keys = Undefined
        THEN AggregateThrown("TypeError")
    ELSE
        LET userCount == Len(encryptedMetrics)
            totals == [k \in FieldIdx |->
                          TotalEncrypted(keys.publicKey, encryptedMetrics,
                                         EncryptedFields[k], userCount)]
        IN [threw |-> FALSE, error |-> <<>>,
            calls |-> AdditionCalls(userCount) \o DecryptCalls(totals),
            value |-> [userCount |-> userCount,
                       averageMoodScore |->
                           Divide(Decrypt(keys.privateKey, totals[1], residue), userCount),
                       totalSessions |-> Decrypt(keys.privateKey, totals[2], residue),
                       averageEngagementTime |->
                           Divide(Decrypt(keys.privateKey, totals[3], residue), userCount),
                       averageWellnessScore |->
                           Divide(Decrypt(keys.privateKey, totals[4], residue), userCount),
                       totalCrisisEvents |-> Decrypt(keys.privateKey, totals[5], residue),
                       aggregationTimestamp |-> DateNow(t)]]

\* variant of aggregateEncryptedMetrics that averages the session count as well
aggregateAveragesSessions(keys, encryptedMetrics, residue, t) ==
    IF Len(encryptedMetrics) = 0
        THEN AggregateThrown("No metrics to aggregate")
    ELSE IF keys = Undefined
        THEN AggregateThrown("TypeError")
    ELSE
        LET userCount == Len(encryptedMetrics)
            totals == [k \in FieldIdx |->
                          TotalEncrypted(keys.publicKey, encryptedMetrics,
                                         EncryptedFields[k], userCount)]
        IN [threw |-> FALSE, error |-> <<>>,
            calls |-> AdditionCalls(userCount) \o DecryptCalls(totals),
            value |-> [userCount |-> userCount,
                       averageMoodScore |->
                           Divide(Decrypt(keys.privateKey, totals[1], residue), userCount),
                       totalSessions |->
                           Decrypt(keys.privateKey, totals[2], residue) \div userCount,
                       averageEngagementTime |->
                           Divide(Decrypt(keys.privateKey, totals[3], residue), userCount),
                       averageWellnessScore |->
                           Divide(Decrypt(keys.privateKey, totals[4], residue), userCount),
                       totalCrisisEvents |-> Decrypt(keys.privateKey, totals[5], residue),
                       aggregationTimestamp |-> DateNow(t)]]

\* variant of aggregateEncryptedMetrics that counts the additions of the loop
\* instead of the records
aggregateCountsAdditions(keys, encryptedMetrics, residue, t) ==
    IF Len(encryptedMetrics) = 0
        THEN AggregateThrown("No metrics to aggregate")
    ELSE IF keys = Undefined
        THEN AggregateThrown("TypeError")    \* this.paillier.publicKey / .privateKey
    ELSE
        LET userCount == Len(encryptedMetrics)
            totals == [k \in FieldIdx |->
                          TotalEncrypted(keys.publicKey, encryptedMetrics,
                                         EncryptedFields[k], userCount)]
            totalMoodScore == Decrypt(keys.privateKey, totals[1], residue)
            totalSessions == Decrypt(keys.privateKey, totals[2], residue)
            totalEngagement == Decrypt(keys.privateKey, totals[3], residue)
            totalWellness == Decrypt(keys.privateKey, totals[4], residue)
            totalCrisis == Decrypt(keys.privateKey, totals[5], residue)
        IN [threw |-> FALSE, error |-> <<>>,
            calls |-> AdditionCalls(userCount) \o DecryptCalls(totals),
            value |-> [userCount |-> userCount - 1,
                       averageMoodScore |-> Divide(totalMoodScore, userCount),
                       totalSessions |-> totalSessions,
                       averageEngagementTime |-> Divide(totalEngagement, userCount),
                       averageWellnessScore |-> Divide(totalWellness, userCount),
                       totalCrisisEvents |-> totalCrisis,
                       aggregationTimestamp |-> DateNow(t)]]

\* aggregateEncryptedMetrics
aggregateEncryptedMetrics(keys, encryptedMetrics, residue, t) ==
    IF Len(encryptedMetrics) = 0
        THEN AggregateThrown("No metrics to aggregate")
    ELSE IF keys = Undefined
        THEN AggregateThrown("TypeError")    \* this.paillier.publicKey / .privateKey
    ELSE
        LET userCount == Len(encryptedMetrics)
            totals == [k \in FieldIdx |->
                          TotalEncrypted(keys.publicKey, encryptedMetrics,
                                         EncryptedFields[k], userCount)]
            totalMoodScore == Decrypt(keys.privateKey, totals[1], residue)
            totalSessions == Decrypt(keys.privateKey, totals[2], residue)
            totalEngagement == Decrypt(keys.privateKey, totals[3], residue)
            totalWellness == Decrypt(keys.privateKey, totals[4], residue)
            totalCrisis == Decrypt(keys.privateKey, totals[5], residue)
        IN [threw |-> FALSE, error |-> <<>>,
            calls |-> AdditionCalls(userCount) \o DecryptCalls(totals),
            value |-> [userCount |-> userCount,
                       averageMoodScore |-> Divide(totalMoodScore, userCount),
                       totalSessions |-> totalSessions,
                       averageEngagementTime |-> Divide(totalEngagement, userCount),
                       averageWellnessScore |-> Divide(totalWellness, userCount),
                       totalCrisisEvents |-> totalCrisis,
                       aggregationTimestamp |-> DateNow(t)]]

AggregationInit ==
    /\ paillier = Undefined
    /\ metricsStore = <<>>
    /\ plainStore = <<>>
    /\ encryptOut = NoResult
    /\ aggregateOut = NoResult

\* await Paillier.generateRandomKeys(2048) settles
InitializeEncryption ==
    /\ paillier = Undefined
    /\ paillier' = [publicKey |-> OwnKey, privateKey |-> OwnKey]
    /\ UNCHANGED <<metricsStore, plainStore, encryptOut, aggregateOut>>

\* a user's report is encrypted and put into the store
EncryptUserMetrics(values) ==
    /\ Len(metricsStore) < MaxUsers
    /\ LET metrics == UserMentalHealthMetrics(Len(metricsStore) + 1, values, DateNow(now))
       IN IF paillier = Undefined
             THEN /\ encryptOut' = [threw |-> TRUE, error |-> "TypeError"]
                  /\ UNCHANGED <<metricsStore, plainStore>>
             ELSE LET encrypted == encryptUserMetrics(paillier.publicKey, metrics)
                  IN /\ encryptOut' = [threw |-> FALSE, value |-> encrypted]
                     /\ metricsStore' = Append(metricsStore, encrypted)
                     /\ plainStore' = Append(plainStore, metrics)
    /\ UNCHANGED <<paillier, aggregateOut>>

\* a report that another engine instance encrypted under its own key pair
\* arrives in the store
StoreForeignMetrics(values) ==
    /\ Len(metricsStore) < MaxUsers
    /\ LET metrics == UserMentalHealthMetrics(Len(metricsStore) + 1, values, DateNow(now))
       IN /\ metricsStore' = Append(metricsStore, encryptUserMetrics(ForeignKey, metrics))
          /\ plainStore' = Append(plainStore, metrics)
    /\ UNCHANGED <<paillier, encryptOut, aggregateOut>>

\* aggregateEncryptedMetrics is called with the records of the store
AggregateEncryptedMetrics ==
    /\ \E residue \in Residues :
          aggregateOut' =
              [input |-> metricsStore,
               outcome |-> aggregateEncryptedMetrics(paillier, metricsStore, residue,
                                                     now)]
    /\ UNCHANGED <<paillier, metricsStore, plainStore, encryptOut>>

(***************************************************************************)
(* The circuits.  A signal is a field element; the elements that occur are *)
(* small integers (negative ones standing for p - k) and quotients          *)
(* a * b^-1 mod p, kept as [num, den] with den = 1 when the quotient is an  *)
(* integer.  A run of a circuit is [ok, out]: ok tells whether a witness    *)
(* satisfying every constraint exists.                                      *)
(***************************************************************************)
ComparatorBits == 8     \* GreaterEqThan(8)

Pow2(n) == IF n = 8 THEN 256 ELSE 512

\* circomlib LessThan(n): Num2Bits(n+1) of a + 2^n - b, out = 1 - its top bit;
\* no witness when that value does not fit in n+1 bits
LessThan(n, a, b) ==
    LET v == a + Pow2(n) - b
    IN IF v < 0 \/ v >= Pow2(n + 1)
          THEN [ok |-> FALSE, out |-> 0]
          ELSE [ok |-> TRUE, out |-> 1 - ((v \div Pow2(n)) % 2)]

\* variant of GreaterEqThan that compares the other way round
LessEqThan(n, a, b) == LessThan(n, a, b + 1)

\* circomlib GreaterEqThan(n): LessThan(n) on in[1] and in[0] + 1
GreaterEqThan(n, a, b) == LessThan(n, b, a + 1)

\* variant of AND that is 1 when either input is
OR(a, b) == a + b - a * b

\* circomlib AND
AND(a, b) == a * b

\* circomlib Poseidon: a collision-free digest of its inputs
Poseidon(inputs) == <<"Poseidon", inputs>>

\* the operator / of circom: multiplication by the inverse modulo p, b # 0
FieldDiv(a, b) ==
    IF a % b = 0 THEN [num |-> a \div b, den |-> 1] ELSE [num |-> a, den |-> b]

RECURSIVE SumOver(_, _)
\* sum of f[1..n]
SumOver(f, n) == IF n = 0 THEN 0 ELSE SumOver(f, n - 1) + f[n]

\* FrequencyAnalyzer(n).avgFrequency
FrequencyAnalyzer(inputs) ==
    LET n == Len(inputs)
        totalGaps == SumOver([i \in 1..(n - 1) |-> inputs[i + 1] - inputs[i]], n - 1)
    IN FieldDiv(totalGaps, n - 1)

\* TrendAnalysis(n).improvementTrend; timeData is not read
TrendAnalysis(moodData, timeData) ==
    LET n == Len(moodData)
        sumX == SumOver([i \in 1..n |-> i - 1], n)
        sumY == SumOver(moodData, n)
        sumXY == SumOver([i \in 1..n |-> (i - 1) * moodData[i]], n)
        sumXX == SumOver([i \in 1..n |-> (i - 1) * (i - 1)], n)
        numerator == n * sumXY - sumX * sumY
        denominator == n * sumXX - sumX * sumX
    IN FieldDiv(numerator, denominator)

\* variant of WellnessMilestoneProof that outputs the milestone type unreduced
WellnessMilestoneProofRawScore(priv, pub) ==
    LET wellnessCheck ==
            GreaterEqThan(ComparatorBits, priv.mentalHealthScore, pub.minWellnessThreshold)
        sessionCheck ==
            GreaterEqThan(ComparatorBits, priv.sessionCount, pub.minSessionRequirement)
        consistencyCheck ==
            GreaterEqThan(ComparatorBits, priv.consistencyDays, pub.minConsistencyDays)
        improvementCheck ==
            GreaterEqThan(ComparatorBits, priv.moodImprovementScore,
                          pub.minImprovementPercent)
        milestoneAnd1 == AND(wellnessCheck.out, sessionCheck.out)
        milestoneAnd2 == AND(consistencyCheck.out, improvementCheck.out)
        finalAnd == AND(milestoneAnd1, milestoneAnd2)
        sessionFrequency == FrequencyAnalyzer(priv.sessionTimestamps)
        trendAnalyzer == TrendAnalysis(priv.dailyMoodScores, priv.sessionTimestamps)
    IN [ok |-> /\ wellnessCheck.ok /\ sessionCheck.ok
               /\ consistencyCheck.ok /\ improvementCheck.ok,
        out |-> [milestoneAchieved |-> finalAnd,
                 achievementHash |->
                     Poseidon(<<priv.mentalHealthScore, priv.sessionCount,
                                priv.consistencyDays, priv.moodImprovementScore,
                                pub.milestoneType, pub.verificationTimestamp,
                                priv.userPrivateKey>>),
                 consistencyProof |->
                     Poseidon(<<sessionFrequency, priv.consistencyDays,
                                priv.userPrivateKey>>),
                 improvementProof |->
                     Poseidon(<<trendAnalyzer, priv.moodImprovementScore,
                                priv.userPrivateKey>>),
                 privacyScore |-> pub.milestoneType]]

\* template WellnessMilestoneProof; moodAverage feeds no output and no constraint
WellnessMilestoneProof(priv, pub) ==
    LET wellnessCheck ==
            GreaterEqThan(ComparatorBits, priv.mentalHealthScore, pub.minWellnessThreshold)
        sessionCheck ==
            GreaterEqThan(ComparatorBits, priv.sessionCount, pub.minSessionRequirement)
        consistencyCheck ==
            GreaterEqThan(ComparatorBits, priv.consistencyDays, pub.minConsistencyDays)
        improvementCheck ==
            GreaterEqThan(ComparatorBits, priv.moodImprovementScore,
                          pub.minImprovementPercent)
        milestoneAnd1 == AND(wellnessCheck.out, sessionCheck.out)
        milestoneAnd2 == AND(consistencyCheck.out, improvementCheck.out)
        finalAnd == AND(milestoneAnd1, milestoneAnd2)
        sessionFrequency == FrequencyAnalyzer(priv.sessionTimestamps)
        trendAnalyzer == TrendAnalysis(priv.dailyMoodScores, priv.sessionTimestamps)
    IN [ok |-> /\ wellnessCheck.ok /\ sessionCheck.ok
               /\ consistencyCheck.ok /\ improvementCheck.ok,
        out |-> [milestoneAchieved |-> finalAnd,
                 achievementHash |->
                     Poseidon(<<priv.mentalHealthScore, priv.sessionCount,
                                priv.consistencyDays, priv.moodImprovementScore,
                                pub.milestoneType, pub.verificationTimestamp,
                                priv.userPrivateKey>>),
                 consistencyProof |->
                     Poseidon(<<sessionFrequency, priv.consistencyDays,
                                priv.userPrivateKey>>),
                 improvementProof |->
                     Poseidon(<<trendAnalyzer, priv.moodImprovementScore,
                                priv.userPrivateKey>>),
                 privacyScore |-> pub.milestoneType % 6]]

\* what the build makes of a division by zero: the witness computation
\* stops, or the quotient is taken to be 0
DivisionByZero == {"fails", "zero"}

\* template SupportQualityCalculator
SupportQualityCalculator(inputs, byZero) ==
    LET n == Len(inputs)
        totalScore == SumOver([i \in 1..n |-> IF inputs[i] > 0 THEN inputs[i] ELSE 0], n)
        validInteractions == Cardinality({i \in 1..n : inputs[i] > 0})
    IN IF validInteractions = 0
          THEN [ok |-> byZero = "zero", qualityScore |-> [num |-> 0, den |-> 1]]
          ELSE [ok |-> TRUE, qualityScore |-> FieldDiv(totalScore, validInteractions)]

\* template PeerSupportVerification
PeerSupportVerification(priv, pub, byZero) ==
    LET experienceCheck ==
            GreaterEqThan(ComparatorBits, priv.supporterExperience,
                          pub.minExperienceRequired)
        wellnessCheck ==
            GreaterEqThan(ComparatorBits, priv.supporterWellnessScore,
                          pub.minWellnessForSupport)
        qualityCalculator == SupportQualityCalculator(priv.supportHistory, byZero)
        \* a quotient that is no integer is no 9-bit value
        qualityCheck ==
            IF qualityCalculator.qualityScore.den = 1
                THEN GreaterEqThan(ComparatorBits, qualityCalculator.qualityScore.num,
                                   pub.supportQualityThreshold)
                ELSE [ok |-> FALSE, out |-> 0]
        supportAnd == AND(experienceCheck.out, wellnessCheck.out)
    IN [ok |-> /\ experienceCheck.ok /\ wellnessCheck.ok
               /\ qualityCalculator.ok /\ qualityCheck.ok,
        out |-> [canProvideSupport |-> supportAnd * qualityCheck.out,
                 supportQualityScore |-> qualityCalculator.qualityScore,
                 anonymousCredential |->
                     Poseidon(<<priv.supporterExperience, qualityCalculator.qualityScore,
                                priv.supporterWellnessScore,
                                priv.supporterPrivateKey>>)]]

(***************************************************************************)
(* Runs of the circuits on inputs a prover may hand in                     *)
(***************************************************************************)
\* [mentalHealthScore, sessionCount, consistencyDays, moodImprovementScore]
MilestonePrivateValues ==
    {<<85, 12, 40, 30>>, <<70, 12, 40, 30>>, <<80, 10, 30, 20>>,
     <<255, 255, 255, 255>>, <<0, 0, 0, 0>>, <<300, 12, 40, 30>>}

\* values of the four minimum thresholds, in the order of ThresholdNames
ThresholdLevels == <<{80, 90, 300}, {10, 20, 300}, {30, 80, 300}, {20, 30, 80}>>

MilestoneThresholds ==
    {t \in [1..4 -> {10, 20, 30, 80, 90, 300}] : \A k \in 1..4 : t[k] \in ThresholdLevels[k]}

MilestoneTypes == {3, 7}

MilestonePrivate(values) ==
    [mentalHealthScore |-> values[1], sessionCount |-> values[2],
     consistencyDays |-> values[3], moodImprovementScore |-> values[4],
     userPrivateKey |-> 1,
     sessionTimestamps |-> [i \in 1..30 |-> 100 * i],
     dailyMoodScores |-> [i \in 1..30 |-> 50 + i]]

MilestonePublic(thresholds, type) ==
    [minWellnessThreshold |-> thresholds[1], minSessionRequirement |-> thresholds[2],
     minConsistencyDays |-> thresholds[3], minImprovementPercent |-> thresholds[4],
     milestoneType |-> type, verificationTimestamp |-> 0]

ThresholdNames == <<"minWellnessThreshold", "minSessionRequirement",
                    "minConsistencyDays", "minImprovementPercent">>

\* the positive entries a history starts with; the rest of the 20 is padding
HistoryHeads == {<<>>, <<3, 4>>, <<4, 4>>, <<5, 3>>, <<6>>, <<250, 250>>}
HistoryPaddings == {0, -2}

SupportHistory(head, padding) ==
    [i \in 1..20 |-> IF i <= Len(head) THEN head[i] ELSE padding]

PeerPrivate(experience, wellness, history) ==
    [supporterExperience |-> experience, supporterWellnessScore |-> wellness,
     supportHistory |-> history, supporterPrivateKey |-> 1]

PeerPublic(minExperience, minWellness, threshold) ==
    [minExperienceRequired |-> minExperience, minWellnessForSupport |-> minWellness,
     supportQualityThreshold |-> threshold]

CircuitInit ==
    /\ wellnessRun = NoResult
    /\ peerRun = NoResult

\* the witness of the wellness circuit is computed for the inputs handed in
RunWellnessMilestone(values, thresholds, type) ==
    /\ wellnessRun = NoResult
    /\ LET priv == MilestonePrivate(values)
           pub == MilestonePublic(thresholds, type)
       IN wellnessRun' = [priv |-> priv, pub |-> pub,
                          run |-> WellnessMilestoneProof(priv, pub),
                          raised |-> 0, before |-> NoResult]
    /\ UNCHANGED peerRun

\* the same private inputs are run against one threshold raised
RaiseThreshold(k, level) ==
    /\ wellnessRun # NoResult
    /\ level > wellnessRun.pub[ThresholdNames[k]]
    /\ LET pub == [wellnessRun.pub EXCEPT ![ThresholdNames[k]] = level]
       IN wellnessRun' = [priv |-> wellnessRun.priv, pub |-> pub,
                          run |-> WellnessMilestoneProof(wellnessRun.priv, pub),
                          raised |-> k,
                          before |-> [ok |-> wellnessRun.run.ok,
                                      milestoneAchieved |->
                                          wellnessRun.run.out.milestoneAchieved]]
    /\ UNCHANGED peerRun

\* the witness of the peer-support circuit is computed for the inputs handed in
RunPeerSupport(priv, pub, byZero) ==
    /\ peerRun = NoResult
    /\ peerRun' = [priv |-> priv, pub |-> pub,
                   run |-> PeerSupportVerification(priv, pub, byZero)]
    /\ UNCHANGED wellnessRun

(***************************************************************************)
(* Specifications                                                          *)
(***************************************************************************)
LegacyInit == zkVerifyOut = NoResult

(***************************************************************************)
(* MentalHealthDataNFT.  A transaction that reverts leaves the contract    *)
(* state as it was; nftTx records what was sent and how it ended.  ERC721  *)
(* itself is the OpenZeppelin contract: a transfer needs an existing       *)
(* token, sent by its owner, from its owner.  Approvals, which only widen  *)
(* who may send a transfer, and the pause switch are left out.             *)
(***************************************************************************)
ZeroAddress == "0x0"
Deployer == "deployer"          \* holds MINTER_ROLE
Holders == {"alice", "bob"}
DataHashes == {"h1", "h2"}
TokenIds == 0..(MaxTokens - 1)

\* the zero value of the DataSovereigntyNFT struct
EmptyDataToken ==
    [dataHash |-> "0x0", privacyLevel |-> 0, isTransferable |-> FALSE,
     dataController |-> ZeroAddress]

NFTInit ==
    /\ dataTokens = [t \in TokenIds |-> EmptyDataToken]
    /\ tokenOwner = [t \in TokenIds |-> ZeroAddress]
    /\ userOwnedTokens = [a \in Holders |-> <<>>]
    /\ dataHashToTokenId = [h \in DataHashes |-> 0]
    /\ tokenIdCounter = 0
    /\ nftTx = NoResult

Reverted(fn, tokenId, reason) ==
    /\ nftTx' = [fn |-> fn, tokenId |-> tokenId, reverted |-> TRUE, reason |-> reason]
    /\ UNCHANGED <<dataTokens, tokenOwner, userOwnedTokens, dataHashToTokenId,
                   tokenIdCounter>>

Succeeded(fn, tokenId) ==
    nftTx' = [fn |-> fn, tokenId |-> tokenId, reverted |-> FALSE, reason |-> ""]

\* variant of mintDataNFT that leaves every token transferable
MintDataNFTAlwaysTransferable(sender, to, dataHash, privacyLevel, proofVerifies) ==
    IF sender # Deployer
        THEN Reverted("mintDataNFT", tokenIdCounter, "AccessControl: missing role")
    ELSE IF ~(privacyLevel >= 1 /\ privacyLevel <= 5)
        THEN Reverted("mintDataNFT", tokenIdCounter, "Invalid privacy level")
    ELSE IF dataHashToTokenId[dataHash] # 0
        THEN Reverted("mintDataNFT", tokenIdCounter, "Data already tokenized")
    ELSE IF ~proofVerifies
        THEN Reverted("mintDataNFT", tokenIdCounter, "Invalid ZK proof")
    ELSE LET tokenId == tokenIdCounter IN
         /\ tokenIdCounter < MaxTokens
         /\ tokenIdCounter' = tokenIdCounter + 1
         /\ dataHashToTokenId' = [dataHashToTokenId EXCEPT ![dataHash] = tokenId]
         /\ dataTokens' = [dataTokens EXCEPT ![tokenId] =
                               [dataHash |-> dataHash, privacyLevel |-> privacyLevel,
                                isTransferable |-> TRUE,
                                dataController |-> to]]
         /\ userOwnedTokens' = [userOwnedTokens EXCEPT ![to] = Append(@, tokenId)]
         /\ tokenOwner' = [tokenOwner EXCEPT ![tokenId] = to]
         /\ Succeeded("mintDataNFT", tokenId)

\* mintDataNFT
MintDataNFT(sender, to, dataHash, privacyLevel, proofVerifies) ==
    IF sender # Deployer
        THEN Reverted("mintDataNFT", tokenIdCounter, "AccessControl: missing role")
    ELSE IF ~(privacyLevel >= 1 /\ privacyLevel <= 5)
        THEN Reverted("mintDataNFT", tokenIdCounter, "Invalid privacy level")
    ELSE IF dataHashToTokenId[dataHash] # 0
        THEN Reverted("mintDataNFT", tokenIdCounter, "Data already tokenized")
    ELSE IF ~proofVerifies
        THEN Reverted("mintDataNFT", tokenIdCounter, "Invalid ZK proof")
    ELSE LET tokenId == tokenIdCounter IN
         /\ tokenIdCounter < MaxTokens
         /\ tokenIdCounter' = tokenIdCounter + 1
         /\ dataHashToTokenId' = [dataHashToTokenId EXCEPT ![dataHash] = tokenId]
         /\ dataTokens' = [dataTokens EXCEPT ![tokenId] =
                               [dataHash |-> dataHash, privacyLevel |-> privacyLevel,
                                isTransferable |-> privacyLevel <= 3,
                                dataController |-> to]]
         /\ userOwnedTokens' = [userOwnedTokens EXCEPT ![to] = Append(@, tokenId)]
         /\ tokenOwner' = [tokenOwner EXCEPT ![tokenId] = to]
         /\ Succeeded("mintDataNFT", tokenId)

\* variant of updatePrivacyLevel without the check against the old level
UpdatePrivacyLevelAnyDirection(sender, tokenId, newPrivacyLevel) ==
    IF tokenOwner[tokenId] = ZeroAddress
        THEN Reverted("updatePrivacyLevel", tokenId, "ERC721: invalid token ID")
    ELSE IF tokenOwner[tokenId] # sender
        THEN Reverted("updatePrivacyLevel", tokenId, "Not token owner")
    ELSE IF ~(newPrivacyLevel >= 1 /\ newPrivacyLevel <= 5)
        THEN Reverted("updatePrivacyLevel", tokenId, "Invalid privacy level")
    ELSE /\ dataTokens' = [dataTokens EXCEPT ![tokenId] =
                               [@ EXCEPT !.privacyLevel = newPrivacyLevel,
                                         !.isTransferable =
                                             IF newPrivacyLevel > 3 THEN FALSE ELSE @]]
         /\ Succeeded("updatePrivacyLevel", tokenId)
         /\ UNCHANGED <<tokenOwner, userOwnedTokens, dataHashToTokenId, tokenIdCounter>>

\* updatePrivacyLevel
UpdatePrivacyLevel(sender, tokenId, newPrivacyLevel) ==
    IF tokenOwner[tokenId] = ZeroAddress
        THEN Reverted("updatePrivacyLevel", tokenId, "ERC721: invalid token ID")
    ELSE IF tokenOwner[tokenId] # sender
        THEN Reverted("updatePrivacyLevel", tokenId, "Not token owner")
    ELSE IF ~(newPrivacyLevel >= 1 /\ newPrivacyLevel <= 5)
        THEN Reverted("updatePrivacyLevel", tokenId, "Invalid privacy level")
    ELSE IF ~(newPrivacyLevel >= dataTokens[tokenId].privacyLevel)
        THEN Reverted("updatePrivacyLevel", tokenId, "Cannot decrease privacy level")
    ELSE /\ dataTokens' = [dataTokens EXCEPT ![tokenId] =
                               [@ EXCEPT !.privacyLevel = newPrivacyLevel,
                                         !.isTransferable =
                                             IF newPrivacyLevel > 3 THEN FALSE ELSE @]]
         /\ Succeeded("updatePrivacyLevel", tokenId)
         /\ UNCHANGED <<tokenOwner, userOwnedTokens, dataHashToTokenId, tokenIdCounter>>

\* position of tokenId in a holder's list, 0 when it is not there
IndexOfToken(tokens, tokenId) ==
    IF \E i \in 1..Len(tokens) : tokens[i] = tokenId
        THEN CHOOSE i \in 1..Len(tokens) :
                 tokens[i] = tokenId /\ \A j \in 1..(i - 1) : tokens[j] # tokenId
        ELSE 0

\* the loop of _updateOwnershipTracking: the last element takes the place of
\* tokenId, then the list is popped
RemoveToken(tokens, tokenId) ==
    LET i == IndexOfToken(tokens, tokenId) IN
    IF i = 0 THEN tokens
    ELSE SubSeq([tokens EXCEPT ![i] = tokens[Len(tokens)]], 1, Len(tokens) - 1)

\* _updateOwnershipTracking
UpdateOwnershipTracking(from, to, tokenId) ==
    LET removed == [userOwnedTokens EXCEPT ![from] = RemoveToken(@, tokenId)]
    IN [removed EXCEPT ![to] = Append(@, tokenId)]

\* transferFrom and safeTransferFrom: the same body around super's transfer
Transfer(fn, sender, from, to, tokenId) ==
    IF ~dataTokens[tokenId].isTransferable
        THEN Reverted(fn, tokenId, "Token not transferable due to privacy settings")
    ELSE IF tokenOwner[tokenId] # sender
        THEN Reverted(fn, tokenId, "ERC721: caller is not token owner or approved")
    ELSE IF tokenOwner[tokenId] # from
        THEN Reverted(fn, tokenId, "ERC721: transfer from incorrect owner")
    ELSE /\ tokenOwner' = [tokenOwner EXCEPT ![tokenId] = to]
         /\ userOwnedTokens' = UpdateOwnershipTracking(from, to, tokenId)
         /\ Succeeded(fn, tokenId)
         /\ UNCHANGED <<dataTokens, dataHashToTokenId, tokenIdCounter>>

TransferFrom(sender, from, to, tokenId) ==
    Transfer("transferFrom", sender, from, to, tokenId)

SafeTransferFrom(sender, from, to, tokenId) ==
    Transfer("safeTransferFrom", sender, from, to, tokenId)

(***************************************************************************)
(* MINDToken.  Amounts are in whole MIND (10**18 base units), times in     *)
(* days.  A transaction that reverts leaves the contract state as it was.  *)
(* The contract exposes no pause function, so whenNotPaused always passes; *)
(* vote checkpoints and governance are left out.                           *)
(***************************************************************************)
MAX_SUPPLY == 1000000000
INITIAL_SUPPLY == 100000000
Year == 365

TokenContract == "MINDToken"
TokenUsers == {Deployer, "alice"}
TokenAccounts == TokenUsers \cup {TokenContract}

\* block.timestamp advances by this much at a time
TokenTick == 20 * Year

\* rewardTiers as set up by _setupRewardTiers, tier 0 first
rewardTiers ==
    <<[minStakeAmount |-> 100, rewardMultiplier |-> 500, minLockPeriod |-> 30],
      [minStakeAmount |-> 1000, rewardMultiplier |-> 800, minLockPeriod |-> 90],
      [minStakeAmount |-> 10000, rewardMultiplier |-> 1200, minLockPeriod |-> 180],
      [minStakeAmount |-> 100000, rewardMultiplier |-> 1500, minLockPeriod |-> 365]>>

\* milestones a caller may name, and milestoneRewards of each (0: not set up)
Milestones == {"first_session", "wellness_champion", "no_such_milestone"}
milestoneRewards(milestone) ==
    IF milestone = "first_session" THEN 10
    ELSE IF milestone = "wellness_champion" THEN 200
    ELSE 0

\* (a * b) / c of unsigned integers, computed without forming a * b
MulDiv(a, b, c) == (a \div c) * b + ((a % c) * b) \div c

\* _getRewardTier: the highest tier the stake qualifies for, 0 when it
\* reverts with "No valid tier found" (tiers are numbered from 1 here)
GetRewardTier(amount, lockPeriod) ==
    LET fits == {i \in 1..Len(rewardTiers) :
                    /\ amount >= rewardTiers[i].minStakeAmount
                    /\ lockPeriod >= rewardTiers[i].minLockPeriod}
    IN IF fits = {} THEN 0 ELSE CHOOSE i \in fits : \A j \in fits : j <= i

NoStake == [stakedAmount |-> 0, stakingTimestamp |-> 0, rewardDebt |-> 0,
            lockPeriod |-> 0, isActive |-> FALSE]

\* _calculateRewards: [reverts, reward]
CalculateRewards(staking, t) ==
    IF ~staking.isActive \/ staking.stakedAmount = 0
        THEN [reverts |-> FALSE, reward |-> 0]
    ELSE LET tierIndex == GetRewardTier(staking.stakedAmount, staking.lockPeriod) IN
         IF tierIndex = 0
             THEN [reverts |-> TRUE, reward |-> 0]
         ELSE LET stakingDuration == t - staking.stakingTimestamp
                  annualReward == MulDiv(staking.stakedAmount,
                                         rewardTiers[tierIndex].rewardMultiplier, 10000)
              IN [reverts |-> FALSE,
                  reward |-> annualReward * (stakingDuration \div Year)
                                + MulDiv(annualReward, stakingDuration % Year, Year)]

TokenInit ==
    /\ balances = [a \in TokenAccounts |-> IF a = Deployer THEN INITIAL_SUPPLY ELSE 0]
    /\ totalSupply = INITIAL_SUPPLY
    /\ stakingInfo = [a \in TokenUsers |-> NoStake]
    /\ totalStaked = 0
    /\ userMilestones = [a \in TokenUsers |-> [m \in Milestones |-> FALSE]]
    /\ blockTimestamp = 0
    /\ tokenTx = NoResult
    /\ tokenTxCount = 0

TokenReverted(fn, sender, arg, reason) ==
    /\ tokenTx' = [fn |-> fn, sender |-> sender, arg |-> arg, reverted |-> TRUE,
                   reason |-> reason]
    /\ UNCHANGED <<balances, totalSupply, stakingInfo, totalStaked, userMilestones,
                   blockTimestamp, tokenTxCount>>

TokenSucceeded(fn, sender, arg) ==
    /\ tokenTxCount < MaxTokenTx
    /\ tokenTxCount' = tokenTxCount + 1
    /\ tokenTx' = [fn |-> fn, sender |-> sender, arg |-> arg, reverted |-> FALSE,
                   reason |-> ""]

\* the _mint override: does the cap allow amount more
\* (totalSupply + amount <= MAX_SUPPLY, with the sum moved across)
MintAllowed(amount) == amount <= MAX_SUPPLY - totalSupply

\* stake
Stake(sender, amount, lockPeriod) ==
    LET tierIndex == GetRewardTier(amount, lockPeriod)
        pending == CalculateRewards(stakingInfo[sender], blockTimestamp)
    IN IF ~(amount > 0)
           THEN TokenReverted("stake", sender, "", "Cannot stake 0 tokens")
       ELSE IF ~(balances[sender] >= amount)
           THEN TokenReverted("stake", sender, "", "Insufficient balance")
       ELSE IF tierIndex = 0 \/ pending.reverts
           THEN TokenReverted("stake", sender, "", "No valid tier found")
       ELSE /\ balances' = [balances EXCEPT ![sender] = @ - amount,
                                            ![TokenContract] = @ + amount]
            /\ stakingInfo' = [stakingInfo EXCEPT ![sender] =
                                   [stakedAmount |-> stakingInfo[sender].stakedAmount + amount,
                                    stakingTimestamp |-> blockTimestamp,
                                    rewardDebt |-> 0,
                                    lockPeriod |-> lockPeriod,
                                    isActive |-> TRUE]]
            /\ totalStaked' = totalStaked + amount
            /\ TokenSucceeded("stake", sender, "")
            /\ UNCHANGED <<totalSupply, userMilestones, blockTimestamp>>

\* unstake
Unstake(sender, amount) ==
    LET userStaking == stakingInfo[sender]
        rewards == CalculateRewards(userStaking, blockTimestamp)
    IN IF ~userStaking.isActive
           THEN TokenReverted("unstake", sender, "", "No active stake")
       ELSE IF ~(userStaking.stakedAmount >= amount)
           THEN TokenReverted("unstake", sender, "", "Insufficient staked amount")
       ELSE IF ~(blockTimestamp >= userStaking.stakingTimestamp + userStaking.lockPeriod)
           THEN TokenReverted("unstake", sender, "", "Tokens still locked")
       ELSE IF rewards.reverts
           THEN TokenReverted("unstake", sender, "", "No valid tier found")
       ELSE IF rewards.reward > 0 /\ ~MintAllowed(rewards.reward)
           THEN TokenReverted("unstake", sender, "", "Max supply exceeded")
       ELSE /\ stakingInfo' = [stakingInfo EXCEPT ![sender] =
                                   [@ EXCEPT !.stakedAmount = @ - amount,
                                             !.isActive = userStaking.stakedAmount - amount # 0]]
            /\ totalStaked' = totalStaked - amount
            /\ balances' = [balances EXCEPT ![TokenContract] = @ - amount,
                                            ![sender] = @ + amount + rewards.reward]
            /\ totalSupply' = totalSupply + rewards.reward
            /\ TokenSucceeded("unstake", sender, "")
            /\ UNCHANGED <<userMilestones, blockTimestamp>>

\* _verifyMilestoneProof
VerifyMilestoneProof(user, milestone, proofLength) == proofLength > 0

\* variant of claimMilestoneReward that does not look at userMilestones
ClaimMilestoneRewardUnchecked(sender, milestone, proofLength) ==
    IF ~(milestoneRewards(milestone) > 0)
        THEN TokenReverted("claimMilestoneReward", sender, milestone, "Invalid milestone")
    ELSE IF ~VerifyMilestoneProof(sender, milestone, proofLength)
        THEN TokenReverted("claimMilestoneReward", sender, milestone,
                           "Invalid milestone proof")
    ELSE IF ~MintAllowed(milestoneRewards(milestone))
        THEN TokenReverted("claimMilestoneReward", sender, milestone, "Max supply exceeded")
    ELSE LET rewardAmount == milestoneRewards(milestone) IN
         /\ userMilestones' = [userMilestones EXCEPT ![sender][milestone] = TRUE]
         /\ balances' = [balances EXCEPT ![sender] = @ + rewardAmount]
         /\ totalSupply' = totalSupply + rewardAmount
         /\ TokenSucceeded("claimMilestoneReward", sender, milestone)
         /\ UNCHANGED <<stakingInfo, totalStaked, blockTimestamp>>

\* claimMilestoneReward
ClaimMilestoneReward(sender, milestone, proofLength) ==
    IF ~(milestoneRewards(milestone) > 0)
        THEN TokenReverted("claimMilestoneReward", sender, milestone, "Invalid milestone")
    ELSE IF userMilestones[sender][milestone]
        THEN TokenReverted("claimMilestoneReward", sender, milestone,
                           "Milestone already claimed")
    ELSE IF ~VerifyMilestoneProof(sender, milestone, proofLength)
        THEN TokenReverted("claimMilestoneReward", sender, milestone,
                           "Invalid milestone proof")
    ELSE IF ~MintAllowed(milestoneRewards(milestone))
        THEN TokenReverted("claimMilestoneReward", sender, milestone, "Max supply exceeded")
    ELSE LET rewardAmount == milestoneRewards(milestone) IN
         /\ userMilestones' = [userMilestones EXCEPT ![sender][milestone] = TRUE]
         /\ balances' = [balances EXCEPT ![sender] = @ + rewardAmount]
         /\ totalSupply' = totalSupply + rewardAmount
         /\ TokenSucceeded("claimMilestoneReward", sender, milestone)
         /\ UNCHANGED <<stakingInfo, totalStaked, blockTimestamp>>

\* blocks are mined: block.timestamp advances
AdvanceBlockTimestamp ==
    /\ blockTimestamp < MaxTokenTicks * TokenTick
    /\ blockTimestamp' = blockTimestamp + TokenTick
    /\ UNCHANGED <<balances, totalSupply, stakingInfo, totalStaked, userMilestones,
                   tokenTx, tokenTxCount>>

(***************************************************************************)
(* generateCacheKey on the input objects callers can hand in               *)
(***************************************************************************)
\* values of a numeric input: a score, and what a score computed as a ratio
\* is when its baseline is zero
KeyValues == {Number(85), NaN, Infinity}

\* privateInputs objects: two properties, written by the caller in either order
KeyPrivateObjects ==
    {<<Property(k1, v1), Property(k2, v2)>> :
        k1 \in {"mentalHealthScore"}, k2 \in {"moodImprovementScore"},
        v1 \in {Number(85)}, v2 \in KeyValues}
    \cup {<<Property(k2, v2), Property(k1, v1)>> :
        k1 \in {"mentalHealthScore"}, k2 \in {"moodImprovementScore"},
        v1 \in {Number(85)}, v2 \in KeyValues}

KeyPublicObjects ==
    {<<Property("minWellnessThreshold", Number(n))>> : n \in {80, 90}}

KeyInit ==
    /\ keyPrev = NoResult
    /\ keyLast = NoResult

GenerateCacheKeyCall(circuitName, privateInputs, publicInputs) ==
    /\ keyPrev' = keyLast
    /\ keyLast' = [circuitName |-> circuitName, privateInputs |-> privateInputs,
                   publicInputs |-> publicInputs,
                   key |-> generateCacheKey(circuitName, privateInputs, publicInputs)]

Init == ProofInit /\ AnalyticsInit /\ LegacyInit /\ AggregationInit /\ CircuitInit /\ KeyInit /\ NFTInit /\ TokenInit

\* the proof service: startup loading, direct calls, the clock
ProofNext ==
    \/ LoadCircuit
    \/ LoadCircuitFails
    \/ \E s \in DirectSlots, priv \in PrivateInputs, pub \in PublicInputs :
          GenerateWellnessMilestoneProof(s, priv, pub)
    \/ \E s \in DirectSlots, priv \in PrivateInputs, pub \in PeerPublicInputs :
          GeneratePeerSupportProof(s, priv, pub)
    \/ \E s \in DirectSlots : WellnessCacheGet(s)
    \/ \E s \in DirectSlots : FullProveSettles(s)
    \/ \E s \in DirectSlots : WellnessVerifySettles(s)
    \/ \E s \in DirectSlots : PeerVerifySettles(s)
    \/ \E s \in DirectSlots : WellnessCacheSet(s)
    \/ Tick

Spec == Init /\ [][ProofNext /\ UNCHANGED <<analyticsVars, legacyVars, aggVars, circuitVars, keyVars, nftVars, tokenVars>>]_vars

\* generateBatchProofs: the items of a batch run interleaved
BatchNext ==
    \/ LoadCircuit
    \/ LoadCircuitFails
    \/ \E reqs \in BatchInputs : GenerateBatchProofs(reqs)
    \/ \E s \in BatchSlots : WellnessCacheGet(s)
    \/ \E s \in BatchSlots : FullProveSettles(s)
    \/ \E s \in BatchSlots : WellnessVerifySettles(s)
    \/ \E s \in BatchSlots : PeerVerifySettles(s)
    \/ \E s \in BatchSlots : WellnessCacheSet(s)
    \/ BatchReturns

SpecBatch == Init /\ [][BatchNext /\ UNCHANGED <<analyticsVars, legacyVars, aggVars, circuitVars, keyVars, nftVars, tokenVars>>]_vars

\* batches of wellness requests only: every item has the same fingerprint
WellnessBatchInputs ==
    {reqs \in BatchInputs : \A i \in 1..Len(reqs) : reqs[i].type = WELLNESS}

\* same-fingerprint wellness calls run interleaved while the clock advances
ConcurrentNext ==
    \/ LoadCircuit
    \/ LoadCircuitFails
    \/ \E reqs \in WellnessBatchInputs : GenerateBatchProofs(reqs)
    \/ \E s \in BatchSlots : WellnessCacheGet(s)
    \/ \E s \in BatchSlots : FullProveSettles(s)
    \/ \E s \in BatchSlots : WellnessVerifySettles(s)
    \/ \E s \in BatchSlots : WellnessCacheSet(s)
    \/ BatchReturns
    \/ Tick

SpecConcurrent == Init /\ [][ConcurrentNext /\ UNCHANGED <<analyticsVars, legacyVars, aggVars, circuitVars, keyVars, nftVars, tokenVars>>]_vars

\* external verifyProof calls during and after startup loading
VerifyNext ==
    \/ LoadCircuit /\ UNCHANGED legacyVars
    \/ LoadCircuitFails /\ UNCHANGED legacyVars
    \/ \E c \in VerifyNames, proof \in PresentedProofs, sigs \in PresentedSignals :
          VerifyProofCall(c, proof, sigs) /\ UNCHANGED legacyVars
    \/ \E f \in KeyFiles, proof \in ZKPresentedProofs, sigs \in ZKPresentedSignals :
          ZKProofServiceVerifyProofCall(f, proof, sigs)

SpecVerify == Init /\ [][VerifyNext /\ UNCHANGED <<analyticsVars, aggVars, circuitVars, keyVars, nftVars, tokenVars>>]_vars

\* the release path of the analytics engine
ReleaseNext ==
    \/ \E s \in ReleaseSlots, c \in Consumers, agg \in AggregateInputs, arg \in EpsilonArgs :
          ReleaseCall(s, c, agg, arg)
    \/ \E s \in ReleaseSlots : ReleaseRuns(s)

SpecRelease == Init /\ [][ReleaseNext /\ UNCHANGED <<proofVars, legacyVars, aggVars, circuitVars, keyVars, nftVars, tokenVars>>]_vars

\* encryption and aggregation of the analytics engine
AggregateNext ==
    \/ InitializeEncryption
    \/ \E values \in MetricValues : EncryptUserMetrics(values)
    \/ \E values \in MetricValues : StoreForeignMetrics(values)
    \/ AggregateEncryptedMetrics

SpecAggregate ==
    Init /\ [][AggregateNext
                /\ UNCHANGED <<proofVars, analyticsVars, legacyVars, circuitVars, keyVars, nftVars, tokenVars>>]_vars

\* runs of the wellness milestone circuit
WellnessCircuitNext ==
    \/ \E values \in MilestonePrivateValues, thresholds \in MilestoneThresholds,
          type \in MilestoneTypes :
          RunWellnessMilestone(values, thresholds, type)
    \/ \E k \in 1..4 : \E level \in ThresholdLevels[k] : RaiseThreshold(k, level)

SpecWellnessCircuit ==
    Init /\ [][WellnessCircuitNext
                /\ UNCHANGED <<proofVars, analyticsVars, legacyVars, aggVars, keyVars, nftVars, tokenVars>>]_vars

\* runs of the peer-support circuit
PeerCircuitNext ==
    \E experience \in {1, 5}, wellness \in {50, 80}, head \in HistoryHeads,
       padding \in HistoryPaddings, minExperience \in {0, 3}, minWellness \in {60},
       threshold \in {0, 3, 4, 5}, byZero \in DivisionByZero :
        RunPeerSupport(PeerPrivate(experience, wellness, SupportHistory(head, padding)),
                       PeerPublic(minExperience, minWellness, threshold), byZero)

SpecPeerCircuit ==
    Init /\ [][PeerCircuitNext
                /\ UNCHANGED <<proofVars, analyticsVars, legacyVars, aggVars, keyVars, nftVars, tokenVars>>]_vars

\* cache keys computed for the requests of two callers
FingerprintNext ==
    \E circuitName \in {WELLNESS, PEER}, privateInputs \in KeyPrivateObjects,
       publicInputs \in KeyPublicObjects :
       GenerateCacheKeyCall(circuitName, privateInputs, publicInputs)

SpecFingerprint ==
    Init /\ [][FingerprintNext
                /\ UNCHANGED <<proofVars, analyticsVars, legacyVars, aggVars, circuitVars, nftVars, tokenVars>>]_vars

\* transactions sent to the data NFT contract
NFTNext ==
    \/ \E sender \in {Deployer, "alice"}, to \in Holders, dataHash \in DataHashes,
          privacyLevel \in {0, 2, 3, 4, 6}, proofVerifies \in BOOLEAN :
          MintDataNFT(sender, to, dataHash, privacyLevel, proofVerifies)
    \/ \E sender \in Holders, tokenId \in TokenIds, newPrivacyLevel \in 0..6 :
          UpdatePrivacyLevel(sender, tokenId, newPrivacyLevel)
    \/ \E sender \in Holders, from \in Holders, to \in Holders, tokenId \in TokenIds :
          TransferFrom(sender, from, to, tokenId)
    \/ \E sender \in Holders, from \in Holders, to \in Holders, tokenId \in TokenIds :
          SafeTransferFrom(sender, from, to, tokenId)

SpecNFT ==
    Init /\ [][NFTNext
                /\ UNCHANGED <<proofVars, analyticsVars, legacyVars, aggVars, circuitVars, keyVars, tokenVars>>]_vars

\* transactions sent to the MIND token
TokenNext ==
    \/ \E sender \in TokenUsers, amount \in {0, 100, INITIAL_SUPPLY},
          lockPeriod \in {0, 30, 365} : Stake(sender, amount, lockPeriod)
    \/ \E sender \in TokenUsers, amount \in {0, 100, INITIAL_SUPPLY} :
          Unstake(sender, amount)
    \/ \E sender \in TokenUsers, milestone \in Milestones, proofLength \in {0, 32} :
          ClaimMilestoneReward(sender, milestone, proofLength)
    \/ AdvanceBlockTimestamp

SpecToken ==
    Init /\ [][TokenNext
                /\ UNCHANGED <<proofVars, analyticsVars, legacyVars, aggVars, circuitVars, keyVars, nftVars>>]_vars




(***************************************************************************)
(* Properties of the proof service                                         *)
(***************************************************************************)
SelfVerificationFailed(call) == call.verdict # NoResult /\ ~call.verdict.value

\* C1: every proof handed back by a generation call, fresh or from the cache,
\* has passed self-verification against its circuit's verification key.
C1_ReturnedProofsSelfVerified ==
    /\ \A s \in Slots :
          (calls[s].pc = "done" /\ calls[s].result.success)
              => calls[s].result.proof.selfVerified
    /\ \A i \in 1..Len(batchOut) :
          batchOut[i].success => batchOut[i].proof.selfVerified

\* C6: a call whose fresh proof failed self-verification ends with an error,
\* hands back no proof, and the cache holds no proof that failed it.
C6_SelfVerificationFailureAborts ==
    /\ \A s \in Slots :
          (calls[s].pc = "done" /\ SelfVerificationFailed(calls[s]))
              => (~calls[s].result.success /\ calls[s].result.proof = NoProof)
    /\ \A k \in DOMAIN proofCache : proofCache[k].value.selfVerified

\* C7: a wellness call whose cache lookup finds an unexpired entry returns
\* exactly that entry, runs neither prover nor verifier and leaves the cache
\* as it was.
C7_CacheHitReturnsCachedProof ==
    [][\A s \in Slots :
         LET hit == CacheGet(proofCache,
                             cacheKey(WELLNESS, calls[s].priv, calls[s].pub), now)
         IN (calls[s].pc = "get" /\ calls'[s] # calls[s] /\ hit # NoEntry)
              => /\ calls'[s].pc = "done"
                 /\ calls'[s].result = Returned(hit)
                 /\ calls'[s].proveCount = 0
                 /\ calls'[s].verifyCount = 0
                 /\ proofCache' = proofCache]_vars

\* a call was served from the cache some time after the proof was generated
C7_Witness ==
    \E s \in Slots :
        /\ calls[s].pc = "done"
        /\ calls[s].fromCache
        /\ calls[s].result.success
        /\ calls[s].result.proof.timestamp < DateNow(now)
        /\ calls[s].proveCount = 0

ItemFailed(call) ==
    \/ call.type \notin {WELLNESS, PEER}
    \/ ~call.result.success
    \/ SelfVerificationFailed(call)

\* C8: in a returned batch, every request that failed (prover error,
\* self-verification failure, unknown type) has success=false and carries its
\* error message, and a request that did not fail has success=true.
C8_BatchFailureIsolated ==
    batchState = "returned" =>
        /\ Len(batchOut) = Len(batchReqs)
        /\ \A i \in 1..Len(batchReqs) :
              IF ItemFailed(calls[BatchSlot(i)])
                  THEN ~batchOut[i].success /\ batchOut[i].error # <<>>
                  ELSE batchOut[i].success

\* C9: a returned batch has one result per request, in request order, each
\* with the requestId and the outcome of the request at its position.
C9_BatchResultsInRequestOrder ==
    batchState = "returned" =>
        /\ Len(batchOut) = Len(batchReqs)
        /\ \A i \in 1..Len(batchReqs) :
              LET req == batchReqs[i]
                  res == calls[BatchSlot(i)].result
                  out == batchOut[i]
              IN /\ out.requestId = req.requestId
                 /\ out.success = res.success
                 /\ out.proof = res.proof
                 /\ out.error = res.error
                 /\ out.success =>
                       /\ out.proof.proof.circuit = req.type
                       /\ out.proof.proof.priv = req.privateInputs
                       /\ out.proof.proof.pub = req.publicInputs

\* a batch of two requests with different ids returned one success and one failure
C9_Witness ==
    /\ batchState = "returned"
    /\ Len(batchReqs) = 2
    /\ batchReqs[1].requestId # batchReqs[2].requestId
    /\ batchOut[1].success
    /\ ~batchOut[2].success

\* C10: verifyProof rejects (throws) exactly when no verification key is
\* loaded for the circuit id, and resolves with a boolean otherwise.
C10_UnknownCircuitFails ==
    verifyOut # NoResult => (verifyOut.outcome.threw <=> ~verifyOut.keyLoaded)

\* C11: verifyProof resolves with false, and does not reject, when the
\* verification key of the named circuit is loaded and the presented proof is
\* well-formed but fails the groth16 check; so does ZKProofService.verifyProof
\* with a readable key file.
C11_InvalidProofReturnsFalse ==
    /\ (/\ verifyOut # NoResult
        /\ verifyOut.keyLoaded
        /\ verifyOut.proof.wellFormed
        /\ ~Groth16Verify(verifyOut.circuitName, verifyOut.publicSignals, verifyOut.proof))
          => verifyOut.outcome = [threw |-> FALSE, value |-> FALSE]
    /\ (/\ zkVerifyOut # NoResult
        /\ zkVerifyOut.keyFile # "unreadable"
        /\ zkVerifyOut.proof.wellFormed
        /\ ~Groth16Verify(zkVerifyOut.keyFile, zkVerifyOut.publicSignals, zkVerifyOut.proof))
          => zkVerifyOut.outcome = [threw |-> FALSE, value |-> FALSE]

\* a sound proof of the named circuit, presented with the public signals of
\* other inputs, was answered with false
C11_Witness ==
    /\ verifyOut # NoResult
    /\ verifyOut.keyLoaded
    /\ verifyOut.proof.wellFormed
    /\ verifyOut.proof.sound
    /\ verifyOut.proof.circuit = verifyOut.circuitName
    /\ verifyOut.publicSignals
          # PublicSignalsOf(verifyOut.proof.circuit, verifyOut.proof.priv, verifyOut.proof.pub)
    /\ ~verifyOut.outcome.threw
    /\ ~verifyOut.outcome.value

(***************************************************************************)
(* Properties of the release path                                          *)
(***************************************************************************)
\* C2: a consumer's cumulative epsilon never exceeds the budget cap.
C2_SpentWithinCap ==
    \A c \in Consumers : epsilonUsed[c] <= BudgetCap

\* C3: of two releases against the same budget that were issued at the same
\* spent value, each fitting alone but not together, exactly one is granted and
\* the other ends with BudgetExceededError.
C3_ConcurrentReleasesOneWins ==
    \A s1, s2 \in ReleaseSlots :
        LET a == releaseCalls[s1]
            b == releaseCalls[s2]
            ea == EffectiveEpsilon(a.epsilonArg)
            eb == EffectiveEpsilon(b.epsilonArg)
        IN (/\ s1 # s2
            /\ a.pc = "returned" /\ b.pc = "returned"
            /\ a.consumer = b.consumer
            /\ a.seenSpent = b.seenSpent
            /\ a.seenSpent + ea <= BudgetCap
            /\ b.seenSpent + eb <= BudgetCap
            /\ a.seenSpent + ea + eb > BudgetCap)
           => /\ {a.outcome, b.outcome} = {"granted", "BudgetExceededError"}
              /\ epsilonUsed[a.consumer] <= BudgetCap

\* C4: a release that asks for more epsilon than remains ends with
\* BudgetExceededError, hands back no insights and leaves the spent value as
\* it was.
C4_OverBudgetReleaseDenied ==
    [][\A s \in ReleaseSlots :
         LET call == releaseCalls[s] IN
         (/\ call.pc = "called"
          /\ releaseCalls'[s].pc = "returned"
          /\ EffectiveEpsilon(call.epsilonArg) > BudgetCap - epsilonUsed[call.consumer])
         => /\ releaseCalls'[s].outcome = "BudgetExceededError"
            /\ lastInsights' = lastInsights
            /\ epsilonUsed' = epsilonUsed]_vars

AggregateReturned == aggregateOut # NoResult /\ ~aggregateOut.outcome.threw

\* every ciphertext of the aggregated records is of the engine's own key
InputUnderOwnKey ==
    /\ paillier # Undefined
    /\ \A i \in 1..Len(aggregateOut.input), k \in FieldIdx :
          aggregateOut.input[i][EncryptedFields[k]].key = paillier.publicKey

RECURSIVE PlainSum(_, _)
\* sum of the k-th metric over the first n reports
PlainSum(k, n) ==
    IF n = 0 THEN 0 ELSE PlainSum(k, n - 1) + plainStore[n][PlainFields[k]]

DecryptCallsOf(k) ==
    {j \in DOMAIN aggregateOut.outcome.calls :
        /\ aggregateOut.outcome.calls[j].op = "decrypt"
        /\ aggregateOut.outcome.calls[j].field = EncryptedFields[k]}

\* C12: aggregation of an empty list ends with the empty-input error before
\* any addition or decryption, and hands back no result.
C12_EmptyInputFails ==
    (aggregateOut # NoResult /\ Len(aggregateOut.input) = 0)
        => /\ aggregateOut.outcome.threw
           /\ aggregateOut.outcome.error = "No metrics to aggregate"
           /\ aggregateOut.outcome.calls = <<>>
           /\ aggregateOut.outcome.value = NoResult

\* the engine, its key pair ready, was asked to aggregate an empty store
C12_Witness ==
    /\ aggregateOut # NoResult
    /\ paillier # Undefined
    /\ aggregateOut.input = <<>>
    /\ aggregateOut.outcome.threw

\* C13: for reports encrypted by the engine, the ciphertext decrypted for each
\* metric field carries exactly the plain sum of that field over all reports.
C13_DecryptedSumIsPlainSum ==
    (AggregateReturned /\ InputUnderOwnKey)
        => \A k \in FieldIdx :
              /\ Cardinality(DecryptCallsOf(k)) = 1
              /\ \A j \in DecryptCallsOf(k), residue \in Residues :
                    Decrypt(paillier.privateKey,
                            aggregateOut.outcome.calls[j].ciphertext, residue)
                        = PlainSum(k, Len(aggregateOut.input))

\* three reports with different metrics, all encrypted by the engine, were
\* aggregated
C13_Witness ==
    /\ AggregateReturned
    /\ InputUnderOwnKey
    /\ Len(aggregateOut.input) = 3
    /\ plainStore[1].moodScore # plainStore[2].moodScore
    /\ plainStore[2].moodScore # plainStore[3].moodScore

\* C14: one aggregation decrypts once per metric field, each time the
\* ciphertext that sums that field over all N records, after every addition
\* has been made, and never a ciphertext of a single user's record (N = 1
\* included).
C14_OnlyAggregateDecrypted ==
    AggregateReturned =>
        LET in == aggregateOut.input
            log == aggregateOut.outcome.calls
            n == Len(in)
        IN /\ Cardinality({j \in DOMAIN log : log[j].op = "addition"})
                = Len(EncryptedFields) * (n - 1)
           /\ \A j1, j2 \in DOMAIN log :
                 (log[j1].op = "addition" /\ log[j2].op = "decrypt") => j1 < j2
           /\ \A k \in FieldIdx :
                 /\ Cardinality(DecryptCallsOf(k)) = 1
                 /\ \A j \in DecryptCallsOf(k) :
                       /\ Len(log[j].ciphertext.nonces) = n
                       /\ \A i \in 1..n :
                             log[j].ciphertext.nonces[i] = <<in[i].userId, k>>
                       /\ \A i \in 1..n, f \in FieldIdx :
                             log[j].ciphertext # in[i][EncryptedFields[f]]

\* C15: the averaged fields are the exact field sums divided by the number of
\* users, the count fields are the raw sums; moods 60, 80, 100 average to 80.
C15_AveragesAndCounts ==
    (AggregateReturned /\ InputUnderOwnKey) =>
        LET n == Len(aggregateOut.input)
            out == aggregateOut.outcome.value
        IN /\ out.userCount = n
           /\ out.averageMoodScore = Divide(PlainSum(1, n), n)
           /\ out.totalSessions = PlainSum(2, n)
           /\ out.averageEngagementTime = Divide(PlainSum(3, n), n)
           /\ out.averageWellnessScore = Divide(PlainSum(4, n), n)
           /\ out.totalCrisisEvents = PlainSum(5, n)
           /\ (n = 3 /\ {plainStore[i].moodScore : i \in 1..3} = {60, 80, 100})
                 => out.averageMoodScore.num = 80 * out.averageMoodScore.den

\* the moods 60, 80, 100 were aggregated; the engagement average is no integer
C15_Witness ==
    /\ AggregateReturned
    /\ InputUnderOwnKey
    /\ Len(aggregateOut.input) = 3
    /\ {plainStore[i].moodScore : i \in 1..3} = {60, 80, 100}
    /\ aggregateOut.outcome.value.averageMoodScore = Divide(240, 3)
    /\ aggregateOut.outcome.value.averageEngagementTime = Divide(95, 3)

\* C16: aggregation of records whose ciphertexts are not all of one public
\* key ends with an error and hands back no result.
C16_MixedKeysFail ==
    (/\ aggregateOut # NoResult
     /\ \E i, j \in 1..Len(aggregateOut.input), k \in FieldIdx :
           aggregateOut.input[i][EncryptedFields[k]].key
               # aggregateOut.input[j][EncryptedFields[k]].key)
        => /\ aggregateOut.outcome.threw
           /\ aggregateOut.outcome.value = NoResult

(***************************************************************************)
(* Properties of the circuits                                              *)
(***************************************************************************)
\* a value the comparators are declared for
InRange(x) == x >= 0 /\ x < Pow2(ComparatorBits)

MilestoneInputsInRange ==
    /\ InRange(wellnessRun.priv.mentalHealthScore)
    /\ InRange(wellnessRun.priv.sessionCount)
    /\ InRange(wellnessRun.priv.consistencyDays)
    /\ InRange(wellnessRun.priv.moodImprovementScore)
    /\ \A k \in 1..4 : InRange(wellnessRun.pub[ThresholdNames[k]])

\* C17: with the private inputs fixed, a run against one raised minimum
\* threshold (the other three unchanged) never has milestoneAchieved = 1 where
\* the run before had 0.
C17_RaisingThresholdNeverAchieves ==
    [][(/\ wellnessRun # NoResult
        /\ wellnessRun' # NoResult
        /\ wellnessRun'.priv = wellnessRun.priv
        /\ \E k \in 1..4 :
              /\ wellnessRun'.pub[ThresholdNames[k]] > wellnessRun.pub[ThresholdNames[k]]
              /\ \A j \in (1..4) \ {k} :
                    wellnessRun'.pub[ThresholdNames[j]] = wellnessRun.pub[ThresholdNames[j]]
        /\ wellnessRun.run.ok
        /\ wellnessRun'.run.ok)
       => ~(/\ wellnessRun.run.out.milestoneAchieved = 0
            /\ wellnessRun'.run.out.milestoneAchieved = 1)]_vars

\* a raised threshold turned an achieved milestone into one not achieved
C17_Witness ==
    /\ wellnessRun # NoResult
    /\ wellnessRun.raised # 0
    /\ MilestoneInputsInRange
    /\ wellnessRun.before = [ok |-> TRUE, milestoneAchieved |-> 1]
    /\ wellnessRun.run.ok
    /\ wellnessRun.run.out.milestoneAchieved = 0

\* C18: for in-range inputs the circuit has a witness and milestoneAchieved is
\* 1 exactly when all four of score, sessions, consistency days and
\* improvement reach their minimum, 0 otherwise; (85,12,40,30) against
\* (80,10,30,20) gives 1 and (70,12,40,30) gives 0.
C18_AchievedIffAllFourReached ==
    (wellnessRun # NoResult /\ MilestoneInputsInRange) =>
        LET priv == wellnessRun.priv
            pub == wellnessRun.pub
            reached == /\ priv.mentalHealthScore >= pub.minWellnessThreshold
                       /\ priv.sessionCount >= pub.minSessionRequirement
                       /\ priv.consistencyDays >= pub.minConsistencyDays
                       /\ priv.moodImprovementScore >= pub.minImprovementPercent
            thresholds == [k \in 1..4 |-> pub[ThresholdNames[k]]]
        IN /\ wellnessRun.run.ok
           /\ wellnessRun.run.out.milestoneAchieved = IF reached THEN 1 ELSE 0
           /\ (priv = MilestonePrivate(<<85, 12, 40, 30>>) /\ thresholds = <<80, 10, 30, 20>>)
                 => wellnessRun.run.out.milestoneAchieved = 1
           /\ (priv = MilestonePrivate(<<70, 12, 40, 30>>) /\ thresholds = <<80, 10, 30, 20>>)
                 => wellnessRun.run.out.milestoneAchieved = 0

\* the circuit was run on (85,12,40,30) against (80,10,30,20) and gave 1
C18_Witness ==
    /\ wellnessRun # NoResult
    /\ wellnessRun.priv = MilestonePrivate(<<85, 12, 40, 30>>)
    /\ [k \in 1..4 |-> wellnessRun.pub[ThresholdNames[k]]] = <<80, 10, 30, 20>>
    /\ wellnessRun.run.ok
    /\ wellnessRun.run.out.milestoneAchieved = 1

PositiveEntries == {i \in 1..20 : peerRun.priv.supportHistory[i] > 0}

PositiveSum ==
    SumOver([i \in 1..20 |-> IF i \in PositiveEntries
                                THEN peerRun.priv.supportHistory[i] ELSE 0], 20)

\* C19: for in-range inputs and a history with a positive entry the circuit
\* has a witness, supportQualityScore is the sum of the positive entries
\* divided by their number, and canProvideSupport is 1 exactly when
\* experience, wellness and that quality reach their minimum.
C19_QualityIsAverageOfPositives ==
    (/\ peerRun # NoResult
     /\ InRange(peerRun.priv.supporterExperience)
     /\ InRange(peerRun.priv.supporterWellnessScore)
     /\ InRange(peerRun.pub.minExperienceRequired)
     /\ InRange(peerRun.pub.minWellnessForSupport)
     /\ InRange(peerRun.pub.supportQualityThreshold)
     /\ PositiveEntries # {}) =>
        LET count == Cardinality(PositiveEntries)
            quality == peerRun.run.out.supportQualityScore
            eligible == /\ peerRun.priv.supporterExperience
                              >= peerRun.pub.minExperienceRequired
                        /\ peerRun.priv.supporterWellnessScore
                              >= peerRun.pub.minWellnessForSupport
                        /\ PositiveSum >= peerRun.pub.supportQualityThreshold * count
        IN /\ peerRun.run.ok
           /\ quality.num * count = PositiveSum * quality.den
           /\ peerRun.run.out.canProvideSupport = IF eligible THEN 1 ELSE 0

\* C20: a history without a positive entry has no witness, so no proof of
\* peer-support eligibility can be made from it.
C20_NoPositiveEntryNoProof ==
    (peerRun # NoResult /\ PositiveEntries = {}) => ~peerRun.run.ok

(***************************************************************************)
(* Properties of input validation and startup loading                      *)
(***************************************************************************)
\* C21: the prover is run on the wellness circuit only with inputs that fit
\* the declared range of their signals; a value outside the comparator range
\* is turned away before the witness is computed.
C21_ProverRunsOnlyInRange ==
    wellnessRun # NoResult => MilestoneInputsInRange

\* C22: when loading one circuit has failed, every other configured circuit,
\* listed before or after it, has its artifacts and verification key loaded.
C22_LoadFailureIsolated ==
    initState = "failed" =>
        \A i \in 1..Len(circuitConfigs) :
            i # initIdx => /\ circuitConfigs[i] \in circuits
                           /\ circuitConfigs[i] \in verificationKeys

(***************************************************************************)
(* Properties of the proof cache                                           *)
(***************************************************************************)
\* C23: a wellness call is served from the cache only while the entry's TTL,
\* one hour from the moment it was stored, has not elapsed; a call that finds
\* the entry of its inputs expired goes on to the prover, and the proof it
\* verified is stored with a fresh TTL.
C23_ExpiredEntryRegenerated ==
    [][\A s \in Slots :
         LET key == cacheKey(WELLNESS, calls[s].priv, calls[s].pub) IN
         /\ (calls[s].pc = "get" /\ calls'[s] # calls[s]) =>
               /\ (/\ key \in DOMAIN proofCache
                   /\ now >= proofCache[key].expiresAt
                   /\ WELLNESS \in circuits)
                     => (calls'[s].pc = "prove" /\ ~calls'[s].fromCache)
               /\ calls'[s].fromCache =>
                     /\ key \in DOMAIN proofCache
                     /\ now < proofCache[key].expiresAt
                     /\ proofCache[key].expiresAt
                            = proofCache[key].value.timestamp \div 1000 + CacheTTL
                     /\ calls'[s].result = Returned(proofCache[key].value)
         /\ (calls[s].pc = "set" /\ calls'[s].pc = "done") =>
               /\ calls[s].verdict.value
               /\ proofCache'[key] = [value |-> calls[s].zk,
                                      expiresAt |-> calls[s].setAt + CacheTTL]
               /\ calls'[s].result = Returned(calls[s].zk)]_vars

\* a call found the entry of its inputs expired, has proved and verified
\* again and is about to store the new proof
C23_Witness ==
    \E s \in Slots :
        LET key == cacheKey(WELLNESS, calls[s].priv, calls[s].pub) IN
        /\ calls[s].pc = "set"
        /\ key \in DOMAIN proofCache
        /\ calls[s].setAt >= proofCache[key].expiresAt
        /\ calls[s].zk.timestamp > proofCache[key].value.timestamp

\* the calls that missed the cache and completed with a proof for a fingerprint
Writers(key) ==
    {s \in Slots : /\ calls[s].pc = "done"
                    /\ calls[s].type = WELLNESS
                    /\ cacheKey(WELLNESS, calls[s].priv, calls[s].pub) = key
                    /\ calls[s].result.success
                    /\ ~calls[s].fromCache}

Fingerprints ==
    {cacheKey(WELLNESS, priv, pub) : priv \in PrivateInputs, pub \in PublicInputs}

\* C24: when calls with the same fingerprint have all missed the cache and
\* completed, each of them holds a self-verified proof, and the cache holds for
\* that fingerprint one whole entry: the proof of one of those calls together
\* with the expiry of that same write.
C24_ConcurrentMissesLeaveOneEntry ==
    \A key \in Fingerprints :
        Writers(key) # {} =>
            /\ \A s \in Writers(key) : /\ calls[s].result.proof.selfVerified
                                       /\ calls[s].result.proof.isValid
            /\ key \in DOMAIN proofCache
            /\ \E s \in Writers(key) :
                  proofCache[key] = [value |-> calls[s].result.proof,
                                     expiresAt |-> calls[s].setAt + CacheTTL]

\* two calls with one fingerprint both missed the cache and wrote proofs
\* generated at different moments; the cache holds one of the two
C24_Witness ==
    \E a, b \in Slots :
        LET key == cacheKey(WELLNESS, calls[a].priv, calls[a].pub) IN
        /\ a # b
        /\ {a, b} \subseteq Writers(key)
        /\ calls[a].result.proof # calls[b].result.proof
        /\ proofCache[key].value = calls[a].result.proof

(***************************************************************************)
(* Properties of generation followed by verification                       *)
(***************************************************************************)
\* values a tampered public signal may take
SignalValues == PrivateInputs \cup PublicInputs \cup {0}

\* the signal vectors that differ from a returned one in exactly one position
SingleSignalChanges(publicSignals) ==
    {<<c, publicSignals[2], publicSignals[3]>> :
        c \in {WELLNESS, PEER} \ {publicSignals[1]}}
    \cup {<<publicSignals[1], v, publicSignals[3]>> :
        v \in SignalValues \ {publicSignals[2]}}
    \cup {<<publicSignals[1], publicSignals[2], v>> :
        v \in SignalValues \ {publicSignals[3]}}

\* C25: the proof and public signals a generation call returns make
\* verifyProof for the same circuit return true, and with any single public
\* signal changed make it return false.
C25_GenerateVerifyRoundTrip ==
    \A s \in Slots :
        (calls[s].pc = "done" /\ calls[s].result.success) =>
            LET zk == calls[s].result.proof IN
            /\ verifyProof(verificationKeys, calls[s].type, zk.proof,
                           zk.publicSignals).value
            /\ \A changed \in SingleSignalChanges(zk.publicSignals) :
                  ~verifyProof(verificationKeys, calls[s].type, zk.proof, changed).value

\* C26: a generation call, for either circuit, that missed the cache and
\* succeeded has stored its proof under the fingerprint of its inputs, with a
\* TTL, by the time it returns.
C26_MissStoresBeforeReturning ==
    [][\A s \in Slots :
         (/\ calls[s].pc # "done"
          /\ calls'[s].pc = "done"
          /\ calls'[s].result.success
          /\ ~calls'[s].fromCache) =>
            LET key == cacheKey(calls'[s].type, calls'[s].priv, calls'[s].pub) IN
            /\ key \in DOMAIN proofCache'
            /\ proofCache'[key].value = calls'[s].result.proof
            /\ proofCache'[key].expiresAt = calls'[s].setAt + CacheTTL]_vars

(***************************************************************************)
(* Properties of request dispatch                                          *)
(***************************************************************************)
KnownCircuits == {circuitConfigs[i] : i \in 1..Len(circuitConfigs)}

\* C27: a batch request whose type names no known circuit is turned down with
\* an error naming the type as soon as it is dispatched: no prover run, no
\* verification, no cache entry read or written on its behalf, and its result
\* in the batch output is a failure carrying that error.
C27_UnknownTypeRejected ==
    \A i \in 1..Len(batchReqs) :
        batchReqs[i].type \notin KnownCircuits =>
            LET call == calls[BatchSlot(i)] IN
            /\ call.pc = "done"
            /\ call.result = Thrown(<<"Unknown proof type", batchReqs[i].type>>)
            /\ call.proveCount = 0
            /\ call.verifyCount = 0
            /\ ~call.fromCache
            /\ call.proved = NoProof
            /\ call.zk = NoProof
            /\ cacheKey(batchReqs[i].type, batchReqs[i].privateInputs,
                                batchReqs[i].publicInputs) \notin DOMAIN proofCache
            /\ batchState = "returned" =>
                  batchOut[i] = [requestId |-> batchReqs[i].requestId, success |-> FALSE,
                                 proof |-> NoProof,
                                 error |-> <<"Unknown proof type", batchReqs[i].type>>]

\* a batch holding a request of unknown type next to a wellness request that
\* was proved has returned
C27_Witness ==
    /\ batchState = "returned"
    /\ \E i, j \in 1..Len(batchReqs) :
          /\ batchReqs[i].type \notin KnownCircuits
          /\ ~batchOut[i].success
          /\ batchReqs[j].type = WELLNESS
          /\ batchOut[j].success

LoadingFinished == initState \in {"done", "failed"}

\* C29: once startup loading has finished, no step of a generation,
\* verification or batch request adds, removes or replaces a loaded circuit or
\* verification key.
C29_KeysReadOnlyAfterStartup ==
    [][LoadingFinished => /\ circuits' = circuits
                          /\ verificationKeys' = verificationKeys]_vars

\* with all circuits loaded, a batch is running: one item has returned a
\* proof, another is waiting for its self-verification
C29_Witness ==
    /\ initState = "done"
    /\ circuits = KnownCircuits
    /\ verificationKeys = KnownCircuits
    /\ batchState = "running"
    /\ \E a, b \in BatchSlots :
          /\ calls[a].pc = "done"
          /\ calls[a].result.success
          /\ calls[b].pc = "verify"

(***************************************************************************)
(* Properties of prover failures                                           *)
(***************************************************************************)
\* the prover was called and gave no proof
ProverFailed(call) ==
    call.pc = "done" /\ call.proveCount > 0 /\ call.proved = NoProof

\* C30: within one generation call, direct or as a batch item, the prover is
\* called at most once; when it fails the call ends with an error that wraps
\* the prover's, no proof is handed back, and the batch result of that item is
\* a failure carrying the error.
C30_ProverFailureNotRetried ==
    /\ \A s \in Slots :
          /\ calls[s].proveCount <= 1
          /\ ProverFailed(calls[s]) =>
                /\ calls[s].result = Thrown(ErrorOf(calls[s].type, "prover error"))
                /\ calls[s].verifyCount = 0
    /\ batchState = "returned" =>
          \A i \in 1..Len(batchReqs) :
              ProverFailed(calls[BatchSlot(i)]) =>
                  /\ ~batchOut[i].success
                  /\ batchOut[i].proof = NoProof
                  /\ batchOut[i].error = ErrorOf(batchReqs[i].type, "prover error")

\* a batch has returned in which the prover failed for a wellness item and
\* for a peer-support item
C30_Witness ==
    /\ batchState = "returned"
    /\ \E i, j \in 1..Len(batchReqs) :
          /\ batchReqs[i].type = WELLNESS
          /\ batchReqs[j].type = PEER
          /\ ProverFailed(calls[BatchSlot(i)])
          /\ ProverFailed(calls[BatchSlot(j)])
          /\ batchOut[i].error = WellnessError("prover error")
          /\ batchOut[j].error = PeerError("prover error")

(***************************************************************************)
(* Properties of the cache key                                             *)
(***************************************************************************)
\* the properties of an object, whatever order they were written in
PropertiesOf(object) == {object[i] : i \in 1..Len(object)}

\* two requests carry the same (circuit id, private inputs, public inputs)
SameTuple(a, b) ==
    /\ a.circuitName = b.circuitName
    /\ PropertiesOf(a.privateInputs) = PropertiesOf(b.privateInputs)
    /\ PropertiesOf(a.publicInputs) = PropertiesOf(b.publicInputs)

\* C31: two requests get the same cache key exactly when they carry the same
\* circuit id, the same private inputs and the same public inputs.
C31_FingerprintSeparatesTuples ==
    (keyPrev # NoResult /\ keyLast # NoResult) =>
        (SameTuple(keyPrev, keyLast) <=> keyPrev.key = keyLast.key)

(***************************************************************************)
(* Properties of startup                                                   *)
(***************************************************************************)
\* C32: no step of a generation or batch request is taken while
\* initializeCircuits is still populating the maps.
C32_NoRequestWhileLoading ==
    [][\A s \in Slots : calls'[s] # calls[s] => initState # "loading"]_vars

(***************************************************************************)
(* Properties of the cache contents                                        *)
(***************************************************************************)
\* the entry is a proof that verified against its circuit's key, kept under
\* the key of the inputs it was generated from
EntryWellFormed(cache, key) ==
    LET zk == cache[key].value IN
    /\ zk.selfVerified
    /\ zk.isValid
    /\ zk.proof.sound
    /\ zk.publicSignals = PublicSignalsOf(zk.proof.circuit, zk.proof.priv, zk.proof.pub)
    /\ key = cacheKey(zk.proof.circuit, zk.proof.priv, zk.proof.pub)

\* C33: every entry of the proof cache is a proof that passed
\* self-verification, stored under the key of exactly the inputs it was
\* generated from; a step in which a generation fails leaves the cache as it
\* was.
C33_CacheHoldsOnlyVerifiedProofs ==
    [][/\ \A key \in DOMAIN proofCache' : EntryWellFormed(proofCache', key)
       /\ \A s \in Slots :
             (/\ calls[s].pc # "done"
              /\ calls'[s].pc = "done"
              /\ ~calls'[s].result.success) => proofCache' = proofCache]_vars

\* with a verified proof in the cache, a generation for other inputs has
\* failed its self-verification and the cache holds the one entry
C33_Witness ==
    \E s \in Slots :
        /\ calls[s].pc = "done"
        /\ calls[s].type = WELLNESS
        /\ calls[s].result = Thrown(WellnessError("Generated proof is invalid"))
        /\ DOMAIN proofCache # {}
        /\ cacheKey(WELLNESS, calls[s].priv, calls[s].pub) \notin DOMAIN proofCache

\* C34: no encryptUserMetrics or aggregateEncryptedMetrics call runs before
\* the engine's key pair exists, and the key pair, once set, is never replaced.
C34_KeyPairReadyBeforeUse ==
    [][/\ (encryptOut' # encryptOut \/ aggregateOut' # aggregateOut)
             => paillier # Undefined
       /\ paillier # Undefined => paillier' = paillier]_vars

(***************************************************************************)
(* Properties of the user count                                            *)
(***************************************************************************)
\* C35: the userCount of every aggregate handed back is the number of records
\* passed in, is at least 1, and is the divisor of every averaged field.
C35_UserCountIsDivisor ==
    AggregateReturned =>
        LET out == aggregateOut.outcome.value IN
        /\ out.userCount = Len(aggregateOut.input)
        /\ out.userCount >= 1
        /\ out.averageMoodScore.den = out.userCount
        /\ out.averageEngagementTime.den = out.userCount
        /\ out.averageWellnessScore.den = out.userCount

\* an aggregate of two records was handed back, averaged over 2
C35_Witness ==
    /\ AggregateReturned
    /\ Len(aggregateOut.input) = 2
    /\ aggregateOut.outcome.value.userCount = 2
    /\ aggregateOut.outcome.value.averageWellnessScore.den = 2

(***************************************************************************)
(* Properties of the data NFT                                              *)
(***************************************************************************)
Minted(tokenId) == tokenOwner[tokenId] # ZeroAddress

\* C36: the privacy level of a minted token never decreases and stays within
\* 1..5; a token that is not transferable never becomes transferable again;
\* and a transfer of a token whose privacy level exceeds 3 reverts: the token
\* stays with its owner.
C36_PrivacyLevelOnlyRises ==
    [][\A t \in TokenIds :
         /\ Minted(t) =>
               /\ dataTokens'[t].privacyLevel >= dataTokens[t].privacyLevel
               /\ dataTokens'[t].privacyLevel \in 1..5
               /\ ~dataTokens[t].isTransferable => ~dataTokens'[t].isTransferable
               /\ dataTokens[t].privacyLevel > 3 => tokenOwner'[t] = tokenOwner[t]
         /\ (/\ nftTx' # NoResult
             /\ nftTx'.fn \in {"transferFrom", "safeTransferFrom"}
             /\ nftTx'.tokenId = t
             /\ dataTokens[t].privacyLevel > 3) => nftTx'.reverted
         /\ Minted(t)'
               => (dataTokens'[t].isTransferable <=> dataTokens'[t].privacyLevel <= 3)]_vars

\* a token was minted transferable, its owner raised the privacy level above
\* 3, and the owner's transfer of it was turned down
C36_Witness ==
    /\ nftTx # NoResult
    /\ nftTx.fn \in {"transferFrom", "safeTransferFrom"}
    /\ nftTx.reverted
    /\ nftTx.reason = "Token not transferable due to privacy settings"
    /\ Minted(nftTx.tokenId)
    /\ dataTokens[nftTx.tokenId].privacyLevel = 5
    /\ dataTokens[nftTx.tokenId].dataController # tokenOwner[nftTx.tokenId]

(***************************************************************************)
(* Properties of the MIND token                                            *)
(***************************************************************************)
\* the step is a transaction claimMilestoneReward(milestone) sent by account
\* (every step but the advance of block.timestamp is a transaction)
ClaimSent(tx, account, milestone) ==
    /\ blockTimestamp' = blockTimestamp
    /\ tx # NoResult
    /\ tx.fn = "claimMilestoneReward"
    /\ tx.sender = account
    /\ tx.arg = milestone

\* C37: a claim of a milestone the account has not claimed, when it succeeds,
\* mints the milestone's reward to the account once and marks the milestone;
\* a mark is never taken back; a claim of a marked milestone reverts with
\* balances and total supply as they were; and the total supply never
\* exceeds MAX_SUPPLY under stake, unstake and claim.
C37_MilestoneClaimedOnce ==
    [][/\ totalSupply' <= MAX_SUPPLY
       /\ \A a \in TokenUsers, m \in Milestones :
             /\ userMilestones[a][m] => userMilestones'[a][m]
             /\ (ClaimSent(tokenTx', a, m) /\ userMilestones[a][m]) =>
                   /\ tokenTx'.reverted
                   /\ balances' = balances
                   /\ totalSupply' = totalSupply
             /\ (ClaimSent(tokenTx', a, m) /\ ~tokenTx'.reverted) =>
                   /\ ~userMilestones[a][m]
                   /\ userMilestones'[a][m]
                   /\ milestoneRewards(m) > 0
                   /\ balances' = [balances EXCEPT ![a] = @ + milestoneRewards(m)]
                   /\ totalSupply' = totalSupply + milestoneRewards(m)
             /\ (~userMilestones[a][m] /\ userMilestones'[a][m]) =>
                   (ClaimSent(tokenTx', a, m) /\ ~tokenTx'.reverted)]_vars

\* an account that claimed a milestone and holds its reward sent the claim
\* again and was turned down
C37_Witness ==
    \E a \in TokenUsers :
        /\ tokenTx # NoResult
        /\ tokenTx.fn = "claimMilestoneReward"
        /\ tokenTx.sender = a
        /\ tokenTx.arg = "wellness_champion"
        /\ tokenTx.reverted
        /\ tokenTx.reason = "Milestone already claimed"
        /\ userMilestones[a]["wellness_champion"]
        /\ balances[a] = milestoneRewards("wellness_champion")
        /\ totalSupply = INITIAL_SUPPLY + milestoneRewards("wellness_champion")

====
